---- MODULE Spec2Model ----
(***************************************************************************)
(* Island Merge: the connectivity engine (pkg/island: Board + UnionFind),  *)
(* the game loop that drives it (pkg/core: Game.Update), the level         *)
(* editor's painting and test play (pkg/editor: LevelEditor), the          *)
(* achievement system (pkg/achievements: AchievementSystem) and the save   *)
(* system (pkg/storage: LocalStorage + SaveSystem).                        *)
(*                                                                         *)
(* Go objects are records with the fields of the Go struct; a method that  *)
(* mutates its receiver is an operator from the receiver's value to the    *)
(* receiver's new value, paired with the returned value where the method   *)
(* returns one: [uf |-> ..., ret |-> ...].                                 *)
(***************************************************************************)
EXTENDS Integers, Sequences, FiniteSets, TLC

VARIABLES
    board,    \* *island.Board: g.world.Board, or le.TestBoard in test play
    Moves,    \* g.world.Score.Moves
    GameWon,  \* g.world.GameWon
    merged,   \* history: the partition generated by the pairs given to Union
              \* since the last NewUnionFind (cell index -> least index of class)
    last,     \* history: the last call made: its name, whether it was accepted
              \* (or what it returned), the cell built on or the indices given
              \* (x = y = -1 if none) and the number of Bridge tiles before the call;
              \* for a load of the save system, its name, error and value
    world,    \* g.world: State, Mode, StartTime, TimeLimit and Score.Time
    ach,      \* *achievements.AchievementSystem: g.achievementSys
    clock,    \* the clock read by time.Now()
    notified, \* history: the listener callbacks made, << <<listener, id>>, ... >>
    files     \* the files of the data directory of LocalStorage: key -> JSON text

vars == <<board, Moves, GameWon, merged, last, world, ach, clock, notified, files>>

----------------------------------------------------------------------------
(* Bounds of the model *)

\* cells of the bare union-find exercised in SpecUF
MaxCells == 4
\* accepted bridge builds explored in one game / one test play
MaxMoves == 2
\* Land cells painted on a test board
MaxLand == 4
\* Empty cells painted on a test board
MaxEmpty == 1
\* time steps of one game explored
MaxTime == 1
\* on_* calls made on one achievement system
MaxCalls == 5
\* listeners registered on one achievement system
MaxListeners == 2
\* days after the first for which the clock is read
MaxDays == 3
\* OnBridgeBuilt calls explored on their own
MaxBridgesBuilt == 101
\* entries of the island registry of a board that is edited
MaxIslands == 2
\* custom levels stored
MaxLevels == 1
\* games started in one run of the program
MaxGames == 1
\* inputs in a row for which the way back to the menu is searched
MaxInputs == 3
\* the achievements a saved document holds locked, at most
MaxLocked == 2
\* on_* calls explored on a restored system, beyond those that bring every
\* counter one short of its target
MaxAfterLoad == 5
\* <<width, height>> of the test boards explored (the editor's own grid is
\* 16 x 12: EditorGridWidth, EditorGridHeight)
TestShapes == {<<1, 1>>, <<2, 1>>, <<1, 3>>, <<2, 2>>, <<3, 2>>, <<2, 3>>, <<3, 3>>}

----------------------------------------------------------------------------
(* pkg/island/board.go: tile kinds *)

TileEmpty == 0
TileLand == 1
TileSea == 2
TileBridge == 3

\* GetTile's nil pointer; a non-nil *Tile is the index of the tile in b.Tiles
nil == -1

----------------------------------------------------------------------------
(* pkg/island union-find *)

NewUnionFind(size) ==
    [parent |-> [i \in 0..(size - 1) |-> i],
     rank   |-> [i \in 0..(size - 1) |-> 0],
     count  |-> size]

\* Find that returns the parent of x without climbing to the root
FindParentOnly(uf, x) == [uf |-> uf, ret |-> uf.parent[x]]

RECURSIVE Find(_, _)
\* if uf.parent[x] != x { uf.parent[x] = uf.Find(uf.parent[x]) }; return uf.parent[x]
Find(uf, x) ==
    IF uf.parent[x] # x
    THEN LET r  == Find(uf, uf.parent[x])
             u1 == [r.uf EXCEPT !.parent[x] = r.ret]
         IN  [uf |-> u1, ret |-> u1.parent[x]]
    ELSE [uf |-> uf, ret |-> uf.parent[x]]

\* Union whose link step re-parents y itself instead of y's root
UnionLinkArg(uf, x, y) ==
    LET fx    == Find(uf, x)
        fy    == Find(fx.uf, y)
        rootX == fx.ret
        rootY == fy.ret
        u     == fy.uf
    IN  IF rootX = rootY
        THEN [uf |-> u, ret |-> FALSE]
        ELSE LET linked ==
                    IF u.rank[rootX] < u.rank[rootY]
                    THEN [u EXCEPT !.parent[x] = rootY]
                    ELSE IF u.rank[rootX] > u.rank[rootY]
                    THEN [u EXCEPT !.parent[y] = rootX]
                    ELSE [u EXCEPT !.parent[y] = rootX,
                                   !.rank[rootX] = @ + 1]
             IN  [uf |-> [linked EXCEPT !.count = @ - 1], ret |-> TRUE]

\* Union that counts a merge even when both indices share a root
UnionNoCheck(uf, x, y) ==
    LET fx    == Find(uf, x)
        fy    == Find(fx.uf, y)
        rootX == fx.ret
        rootY == fy.ret
        u     == fy.uf
        linked ==
            IF u.rank[rootX] < u.rank[rootY]
            THEN [u EXCEPT !.parent[rootX] = rootY]
            ELSE IF u.rank[rootX] > u.rank[rootY]
            THEN [u EXCEPT !.parent[rootY] = rootX]
            ELSE [u EXCEPT !.parent[rootY] = rootX,
                           !.rank[rootX] = @ + 1]
    IN  [uf |-> [linked EXCEPT !.count = @ - 1], ret |-> TRUE]

\* Union that links the roots without counting the merge
UnionNoCount(uf, x, y) ==
    LET fx    == Find(uf, x)
        fy    == Find(fx.uf, y)
        rootX == fx.ret
        rootY == fy.ret
        u     == fy.uf
    IN  IF rootX = rootY
        THEN [uf |-> u, ret |-> FALSE]
        ELSE LET linked ==
                    IF u.rank[rootX] < u.rank[rootY]
                    THEN [u EXCEPT !.parent[rootX] = rootY]
                    ELSE IF u.rank[rootX] > u.rank[rootY]
                    THEN [u EXCEPT !.parent[rootY] = rootX]
                    ELSE [u EXCEPT !.parent[rootY] = rootX,
                                   !.rank[rootX] = @ + 1]
             IN  [uf |-> linked, ret |-> TRUE]

\* Union that attaches the root of higher rank under the root of lower rank
UnionReversed(uf, x, y) ==
    LET fx    == Find(uf, x)
        fy    == Find(fx.uf, y)
        rootX == fx.ret
        rootY == fy.ret
        u     == fy.uf
    IN  IF rootX = rootY
        THEN [uf |-> u, ret |-> FALSE]
        ELSE LET linked ==
                    IF u.rank[rootX] < u.rank[rootY]
                    THEN [u EXCEPT !.parent[rootY] = rootX]
                    ELSE IF u.rank[rootX] > u.rank[rootY]
                    THEN [u EXCEPT !.parent[rootX] = rootY]
                    ELSE [u EXCEPT !.parent[rootY] = rootX,
                                   !.rank[rootX] = @ + 1]
             IN  [uf |-> [linked EXCEPT !.count = @ - 1], ret |-> TRUE]

Union(uf, x, y) ==
    LET fx    == Find(uf, x)
        fy    == Find(fx.uf, y)
        rootX == fx.ret
        rootY == fy.ret
        u     == fy.uf
    IN  IF rootX = rootY
        THEN [uf |-> u, ret |-> FALSE]
        ELSE LET linked ==
                    IF u.rank[rootX] < u.rank[rootY]
                    THEN [u EXCEPT !.parent[rootX] = rootY]
                    ELSE IF u.rank[rootX] > u.rank[rootY]
                    THEN [u EXCEPT !.parent[rootY] = rootX]
                    ELSE [u EXCEPT !.parent[rootY] = rootX,
                                   !.rank[rootX] = @ + 1]
             IN  [uf |-> [linked EXCEPT !.count = @ - 1], ret |-> TRUE]

\* Connected that compares Find(x) with y itself, not with Find(y)
ConnectedNoFindY(uf, x, y) ==
    LET fx == Find(uf, x)
    IN  [uf |-> fx.uf, ret |-> (fx.ret = y)]

\* return uf.Find(x) == uf.Find(y): the two calls run left to right
Connected(uf, x, y) ==
    LET fx == Find(uf, x)
        fy == Find(fx.uf, y)
    IN  [uf |-> fy.uf, ret |-> (fx.ret = fy.ret)]

ComponentCount(uf) == uf.count

----------------------------------------------------------------------------
(* pkg/island/board.go *)

NewBoard(width, height) ==
    [Width     |-> width,
     Height    |-> height,
     Tiles     |-> [i \in 0..(width * height - 1) |-> TileSea],
     UnionFind |-> NewUnionFind(width * height),
     Islands   |-> <<>>]

\* &b.Tiles[y*b.Width+x], or nil outside the grid
GetTile(b, x, y) ==
    IF x < 0 \/ x >= b.Width \/ y < 0 \/ y >= b.Height
    THEN nil
    ELSE y * b.Width + x

\* SetTile without its bounds check: the index is computed from any (x, y)
\* and a cell is written whenever the index falls inside Tiles
SetTileNoCheck(b, x, y, tileType) ==
    LET idx == y * b.Width + x
    IN  IF idx \notin DOMAIN b.Tiles
        THEN b
        ELSE LET b1 == [b EXCEPT !.Tiles[idx] = tileType]
             IN  IF tileType = TileLand
                 THEN [b1 EXCEPT !.Islands = Append(@, idx)]
                 ELSE b1

SetTile(b, x, y, tileType) ==
    IF x < 0 \/ x >= b.Width \/ y < 0 \/ y >= b.Height
    THEN b
    ELSE LET idx == y * b.Width + x
             b1  == [b EXCEPT !.Tiles[idx] = tileType]
         IN  IF tileType = TileLand
             THEN [b1 EXCEPT !.Islands = Append(@, idx)]
             ELSE b1

directions == << <<0, 1>>, <<1, 0>>, <<0, -1>>, <<-1, 0>> >>

\* CanBuildBridge that accepts only Land as a connection, not Bridge
CanBuildBridgeLandOnly(b, x, y) ==
    LET tile == GetTile(b, x, y)
    IN  IF tile = nil \/ b.Tiles[tile] # TileSea
        THEN FALSE
        ELSE \E d \in 1..4 :
                LET neighbor == GetTile(b, x + directions[d][1], y + directions[d][2])
                IN  neighbor # nil /\ b.Tiles[neighbor] = TileLand

\* the loop sets hasConnection at the first matching direction and breaks
CanBuildBridge(b, x, y) ==
    LET tile == GetTile(b, x, y)
    IN  IF tile = nil \/ b.Tiles[tile] # TileSea
        THEN FALSE
        ELSE \E d \in 1..4 :
                LET neighbor == GetTile(b, x + directions[d][1], y + directions[d][2])
                IN  neighbor # nil
                    /\ (b.Tiles[neighbor] = TileLand \/ b.Tiles[neighbor] = TileBridge)

RECURSIVE BuildBridgeLoopBreak(_, _, _, _)
\* BuildBridge's loop with the break of CanBuildBridge's loop after the Union
BuildBridgeLoopBreak(b, x, y, d) ==
    IF d > 4
    THEN b
    ELSE LET idx      == y * b.Width + x
             nx       == x + directions[d][1]
             ny       == y + directions[d][2]
             neighbor == GetTile(b, nx, ny)
         IN  IF neighbor # nil
                /\ (b.Tiles[neighbor] = TileLand \/ b.Tiles[neighbor] = TileBridge)
             THEN [b EXCEPT !.UnionFind = Union(@, idx, ny * b.Width + nx).uf]
             ELSE BuildBridgeLoopBreak(b, x, y, d + 1)

RECURSIVE BuildBridgeLoop(_, _, _, _)
\* iterations d, d+1, ... of BuildBridge's loop over directions
BuildBridgeLoop(b, x, y, d) ==
    IF d > 4
    THEN b
    ELSE LET idx      == y * b.Width + x
             nx       == x + directions[d][1]
             ny       == y + directions[d][2]
             neighbor == GetTile(b, nx, ny)
         IN  IF neighbor # nil
                /\ (b.Tiles[neighbor] = TileLand \/ b.Tiles[neighbor] = TileBridge)
             THEN BuildBridgeLoop(
                      [b EXCEPT !.UnionFind = Union(@, idx, ny * b.Width + nx).uf],
                      x, y, d + 1)
             ELSE BuildBridgeLoop(b, x, y, d + 1)

\* BuildBridge without the CanBuildBridge guard
BuildBridgeNoGuard(b, x, y) ==
    IF GetTile(b, x, y) = nil
    THEN b
    ELSE BuildBridgeLoop(SetTile(b, x, y, TileBridge), x, y, 1)

BuildBridge(b, x, y) ==
    IF ~CanBuildBridge(b, x, y)
    THEN b
    ELSE BuildBridgeLoop(SetTile(b, x, y, TileBridge), x, y, 1)

RECURSIVE IsAllConnectedFrom(_, _)
\* the loop of IsAllConnected from Go index i - 1 on (b.Islands is 1-based here);
\* every Connected call compresses paths in b.UnionFind
IsAllConnectedFrom(b, i) ==
    IF i > Len(b.Islands)
    THEN [b |-> b, ret |-> TRUE]
    ELSE LET c  == Connected(b.UnionFind, b.Islands[1], b.Islands[i])
             b1 == [b EXCEPT !.UnionFind = c.uf]
         IN  IF ~c.ret
             THEN [b |-> b1, ret |-> FALSE]
             ELSE IsAllConnectedFrom(b1, i + 1)

\* IsAllConnected whose loop starts one island too late
IsAllConnectedSkip(b) ==
    IF Len(b.Islands) <= 1
    THEN [b |-> b, ret |-> TRUE]
    ELSE IsAllConnectedFrom(b, 3)

IsAllConnected(b) ==
    IF Len(b.Islands) <= 1
    THEN [b |-> b, ret |-> TRUE]
    ELSE IsAllConnectedFrom(b, 2)

\* SetupLevel1 that keeps the union-find of the previous level
SetupLevel1KeepUF(b) ==
    LET cleared == [b EXCEPT !.Tiles = [i \in DOMAIN b.Tiles |-> TileSea],
                             !.Islands = <<>>]
    IN  SetTile(SetTile(SetTile(cleared, 1, 1, TileLand), 3, 1, TileLand),
                2, 3, TileLand)

\* SetupLevel1 with the third island at (2, 2): one bridge at (2, 1) touches
\* the three islands
SetupLevel1OneMove(b) ==
    LET cleared == [b EXCEPT !.Tiles = [i \in DOMAIN b.Tiles |-> TileSea],
                             !.Islands = <<>>]
        b3      == SetTile(SetTile(SetTile(cleared, 1, 1, TileLand), 3, 1, TileLand),
                           2, 2, TileLand)
    IN  [b3 EXCEPT !.UnionFind = NewUnionFind(b.Width * b.Height)]

SetupLevel1(b) ==
    LET cleared == [b EXCEPT !.Tiles = [i \in DOMAIN b.Tiles |-> TileSea],
                             !.Islands = <<>>]
        b3      == SetTile(SetTile(SetTile(cleared, 1, 1, TileLand), 3, 1, TileLand),
                           2, 3, TileLand)
    IN  [b3 EXCEPT !.UnionFind = NewUnionFind(b.Width * b.Height)]

----------------------------------------------------------------------------
(* pkg/achievements/achievements.go                                        *)
(*                                                                         *)
(* A time.Time is a number of seconds on the local clock, 0 being a local  *)
(* midnight; a time.Duration is a number of seconds. A method that can     *)
(* notify listeners returns, with the system, the callbacks it made:       *)
(* [as |-> ..., calls |-> << <<listener, id>>, ... >>].                    *)

Second == 1
Minute == 60 * Second
Hour == 60 * Minute
Day == 24 * Hour

AchievementFirstWin == 0
AchievementSpeedrun == 1
AchievementEfficient == 2
AchievementTimeAttackWin == 3
AchievementPerfectGame == 4
AchievementBridgeBuilder == 5
AchievementIslandHopper == 6
AchievementLevelCreator == 7
AchievementDedicated == 8
AchievementMaster == 9

AchievementIds == AchievementFirstWin..AchievementMaster

\* the Target fields set by initializeAchievements
Target ==
    [id \in AchievementIds |->
        CASE id = AchievementFirstWin      -> 1
          [] id = AchievementSpeedrun      -> 1
          [] id = AchievementEfficient     -> 1
          [] id = AchievementTimeAttackWin -> 5
          [] id = AchievementPerfectGame   -> 10
          [] id = AchievementBridgeBuilder -> 100
          [] id = AchievementIslandHopper  -> 25
          [] id = AchievementLevelCreator  -> 5
          [] id = AchievementDedicated     -> 7
          [] id = AchievementMaster        -> 9]

initializeAchievements ==
    [id \in AchievementIds |->
        [Unlocked |-> FALSE, UnlockedAt |-> nil, Progress |-> 0, Target |-> Target[id]]]

NewAchievementSystem ==
    [achievements |-> initializeAchievements,
     statistics   |-> [GamesPlayed    |-> 0,
                       GamesWon       |-> 0,
                       TotalMoves     |-> 0,
                       TotalTime      |-> 0,
                       BestTime       |-> 0,
                       FewestMoves    |-> 999,
                       BridgesBuilt   |-> 0,
                       TimeAttackWins |-> 0,
                       PerfectGames   |-> 0,
                       LevelsCreated  |-> 0,
                       PlayStreak     |-> 0,
                       LastPlayDate   |-> nil],
     listeners    |-> <<>>]

\* registers the listener named callback
OnAchievementUnlocked(as, callback) ==
    [as EXCEPT !.listeners = Append(@, callback)]

\* notifyListeners that calls the listeners last registered first
notifyListenersReversed(as, id) ==
    [k \in 1..Len(as.listeners) |-> <<as.listeners[Len(as.listeners) + 1 - k], id>>]

\* the callbacks made for achievement id, in the order of as.listeners
notifyListeners(as, id) ==
    [k \in 1..Len(as.listeners) |-> <<as.listeners[k], id>>]

RECURSIVE checkAchievement(_, _, _)
RECURSIVE checkMasterAchievement(_, _)

\* checkAchievement that locks an unlocked achievement again
checkAchievementRelock(as, id, now) ==
    LET achievement == as.achievements[id]
    IN  IF achievement.Unlocked
        THEN [as |-> [as EXCEPT !.achievements[id].Unlocked = FALSE], calls |-> <<>>]
        ELSE IF achievement.Progress >= achievement.Target
        THEN LET as1 == [as EXCEPT !.achievements[id].Unlocked = TRUE,
                                   !.achievements[id].UnlockedAt = now]
                 m   == checkMasterAchievement(as1, now)
             IN  [as |-> m.as, calls |-> notifyListeners(as1, id) \o m.calls]
        ELSE [as |-> as, calls |-> <<>>]

\* checkAchievement at clock reading now
checkAchievement(as, id, now) ==
    LET achievement == as.achievements[id]
    IN  IF achievement.Unlocked
        THEN [as |-> as, calls |-> <<>>]
        ELSE IF achievement.Progress >= achievement.Target
        THEN LET as1 == [as EXCEPT !.achievements[id].Unlocked = TRUE,
                                   !.achievements[id].UnlockedAt = now]
                 m   == checkMasterAchievement(as1, now)
             IN  [as |-> m.as, calls |-> notifyListeners(as1, id) \o m.calls]
        ELSE [as |-> as, calls |-> <<>>]

\* checkMasterAchievement that checks Island Master without bringing its
\* Progress up to date
checkMasterAchievementStale(as, now) ==
    IF ~as.achievements[AchievementMaster].Unlocked
    THEN checkAchievement(as, AchievementMaster, now)
    ELSE [as |-> as, calls |-> <<>>]

\* checkMasterAchievement at clock reading now: the live count of the unlocked
\* achievements other than Island Master becomes its Progress
checkMasterAchievement(as, now) ==
    LET unlockedCount ==
            Cardinality({id \in AchievementIds :
                            id # AchievementMaster /\ as.achievements[id].Unlocked})
    IN  IF ~as.achievements[AchievementMaster].Unlocked
        THEN checkAchievement(
                 [as EXCEPT !.achievements[AchievementMaster].Progress = unlockedCount],
                 AchievementMaster, now)
        ELSE [as |-> as, calls |-> <<>>]

\* SetAndCheck that checks the achievement before it records the progress
SetAndCheckLate(r, id, progress, now) ==
    LET c == checkAchievement(r.as, id, now)
    IN  [as    |-> [c.as EXCEPT !.achievements[id].Progress = progress],
         calls |-> r.calls \o c.calls]

\* as.achievements[id].Progress = progress; as.checkAchievement(id), after the
\* calls already made in r
SetAndCheck(r, id, progress, now) ==
    LET c == checkAchievement([r.as EXCEPT !.achievements[id].Progress = progress],
                              id, now)
    IN  [as |-> c.as, calls |-> r.calls \o c.calls]

\* int(d.Hours() / 24): the whole days in a duration, truncated toward zero
DaysIn(d) == IF d >= 0 THEN d \div Day ELSE -((-d) \div Day)

\* the play streak after a game start at now
NextPlayStreak(statistics, now) ==
    IF statistics.LastPlayDate # nil
    THEN LET daysSince == DaysIn(now - statistics.LastPlayDate)
         IN  IF daysSince = 1 THEN statistics.PlayStreak + 1
             ELSE IF daysSince > 1 THEN 1
             ELSE statistics.PlayStreak
    ELSE 1

OnGameStart(as, now) ==
    LET streak == NextPlayStreak(as.statistics, now)
        as1    == [as EXCEPT !.statistics.GamesPlayed = @ + 1,
                             !.statistics.PlayStreak = streak,
                             !.statistics.LastPlayDate = now]
    IN  SetAndCheck([as |-> as1, calls |-> <<>>], AchievementDedicated, streak, now)

min(a, b) == IF a < b THEN a ELSE b

OnGameWin(as, moves, gameTime, isTimeAttack, isPerfect, now) ==
    LET s  == as.statistics
        s1 == [s EXCEPT !.GamesWon = @ + 1,
                        !.TotalMoves = @ + moves,
                        !.TotalTime = @ + gameTime,
                        !.BestTime = IF @ = 0 \/ gameTime < @ THEN gameTime ELSE @,
                        !.FewestMoves = IF moves < @ THEN moves ELSE @]
        r0 == [as |-> [as EXCEPT !.statistics = s1], calls |-> <<>>]
        \* Time Attack specific
        r1 == IF isTimeAttack
              THEN SetAndCheck(
                       [r0 EXCEPT !.as.statistics.TimeAttackWins = @ + 1],
                       AchievementTimeAttackWin, s1.TimeAttackWins + 1, now)
              ELSE r0
        \* Perfect game
        r2 == IF isPerfect
              THEN LET p == SetAndCheck(
                                [r1 EXCEPT !.as.statistics.PerfectGames = @ + 1],
                                AchievementPerfectGame, s1.PerfectGames + 1, now)
                       e == checkAchievement(p.as, AchievementEfficient, now)
                   IN  [as |-> e.as, calls |-> p.calls \o e.calls]
              ELSE r1
        r3 == SetAndCheck(r2, AchievementFirstWin, min(1, s1.GamesWon), now)
        r4 == SetAndCheck(r3, AchievementIslandHopper, s1.GamesWon, now)
    IN  \* Speed achievement (under 30 seconds)
        IF gameTime < 30 * Second
        THEN SetAndCheck(r4, AchievementSpeedrun, 1, now)
        ELSE r4

\* OnBridgeBuilt that records the progress without checking the achievement
OnBridgeBuiltNoCheck(as, now) ==
    [as    |-> [as EXCEPT !.statistics.BridgesBuilt = @ + 1,
                          !.achievements[AchievementBridgeBuilder].Progress =
                              as.statistics.BridgesBuilt + 1],
     calls |-> <<>>]

OnBridgeBuilt(as, now) ==
    SetAndCheck([as |-> [as EXCEPT !.statistics.BridgesBuilt = @ + 1], calls |-> <<>>],
                AchievementBridgeBuilder, as.statistics.BridgesBuilt + 1, now)

OnLevelCreated(as, now) ==
    SetAndCheck([as |-> [as EXCEPT !.statistics.LevelsCreated = @ + 1], calls |-> <<>>],
                AchievementLevelCreator, as.statistics.LevelsCreated + 1, now)

\* the document SaveToJSON writes: the achievements and the statistics, not
\* the listeners
SaveToJSON(as) ==
    [achievements |-> as.achievements, statistics |-> as.statistics]

\* LoadFromJSON of a document data that parses: a key of the document that is
\* present replaces the field of the system, the listeners stay
LoadFromJSON(as, data) ==
    [as EXCEPT !.achievements = IF "achievements" \in DOMAIN data
                                THEN data.achievements ELSE @,
               !.statistics   = IF "statistics" \in DOMAIN data
                                THEN data.statistics ELSE @]

----------------------------------------------------------------------------
(* pkg/storage: LocalStorage (the file build) and SaveSystem               *)
(*                                                                         *)
(* A file holds a text; a text that json.Marshal wrote is                  *)
(* [json |-> the JSON type, value |-> the Go value it encodes], and a text *)
(* that is not JSON is Malformed. A target of json.Unmarshal accepts one   *)
(* JSON type: "object" for a struct, "array" for a slice, "string" for a   *)
(* string.                                                                 *)

SaveKeyGameState == "island_merge_game_state"
SaveKeyAchievements == "island_merge_achievements"
SaveKeySettings == "island_merge_settings"
SaveKeyCustomLevels == "island_merge_custom_levels"
SaveKeyProgress == "island_merge_progress"

SaveKeys ==
    {SaveKeyGameState, SaveKeyAchievements, SaveKeySettings, SaveKeyCustomLevels,
     SaveKeyProgress}

\* the empty data directory
NoFiles == [k \in {} |-> [json |-> "null", value |-> [none |-> TRUE]]]

\* a file whose text does not parse
Malformed == [json |-> "malformed", value |-> [none |-> TRUE]]

\* the value of a target that Get did not fill
NoValue == [none |-> TRUE]

\* LocalStorage.Set: json.Marshal of value, of JSON type kind, written to the
\* file of key
Set(fs, key, kind, value) ==
    [k \in DOMAIN fs \cup {key} |->
        IF k = key THEN [json |-> kind, value |-> value] ELSE fs[k]]

\* LocalStorage.Get into a target that accepts the JSON type kind: the error
\* returned and the value decoded
Get(fs, key, kind) ==
    IF key \notin DOMAIN fs
    THEN [err |-> "ErrNotFound", value |-> NoValue]
    ELSE IF fs[key].json = "malformed"
    THEN [err |-> "SyntaxError", value |-> NoValue]
    ELSE IF fs[key].json # kind
    THEN [err |-> "UnmarshalTypeError", value |-> NoValue]
    ELSE [err |-> "nil", value |-> fs[key].value]

\* LocalStorage.Remove
Remove(fs, key) == [k \in DOMAIN fs \ {key} |-> fs[k]]

\* LocalStorage.Exists
Exists(fs, key) == key \in DOMAIN fs

\* json.Unmarshal of an object into a struct: the exported fields of the
\* target that the object names are assigned, the others are left alone
UnmarshalInto(target, object, exported) ==
    [f \in DOMAIN target |->
        IF f \in exported /\ f \in DOMAIN object THEN object[f] ELSE target[f]]

SaveGameState(fs, gameState) == Set(fs, SaveKeyGameState, "object", gameState)

\* LoadGameState: the state decoded, or nil with the error of Get
LoadGameState(fs) ==
    LET r == Get(fs, SaveKeyGameState, "object")
    IN  IF r.err # "nil"
        THEN [gameState |-> NoValue, err |-> r.err]
        ELSE [gameState |-> r.value, err |-> "nil"]

HasSavedGame(fs) == Exists(fs, SaveKeyGameState)

DeleteSavedGame(fs) == Remove(fs, SaveKeyGameState)

\* SaveAchievements of a Go value of JSON type kind
SaveAchievements(fs, kind, achievements) ==
    Set(fs, SaveKeyAchievements, kind, achievements)

\* the exported fields of the struct AchievementSystem: it has none
AchievementSystemExported == {}

\* LoadAchievements(target) for a target of type *AchievementSystem
LoadAchievements(fs, target) ==
    LET r == Get(fs, SaveKeyAchievements, "object")
    IN  IF r.err # "nil"
        THEN [target |-> target, err |-> r.err]
        ELSE [target |-> UnmarshalInto(target, r.value, AchievementSystemExported),
              err    |-> "nil"]

SaveSettings(fs, settings) == Set(fs, SaveKeySettings, "object", settings)

GetDefaultSettings ==
    [SoundEnabled |-> TRUE, MusicEnabled |-> TRUE, AnimationSpeed |-> 10,
     ShowTutorial |-> TRUE, AutoSave |-> TRUE, PreferredMode |-> 0]

\* LoadSettings; AnimationSpeed is in tenths
LoadSettings(fs) ==
    LET r == Get(fs, SaveKeySettings, "object")
    IN  IF r.err # "nil"
        THEN [settings |-> GetDefaultSettings, err |-> "nil"]
        ELSE [settings |-> r.value, err |-> "nil"]

SaveProgress(fs, progress) == Set(fs, SaveKeyProgress, "object", progress)

\* LoadProgress at clock reading now
LoadProgress(fs, now) ==
    LET r == Get(fs, SaveKeyProgress, "object")
    IN  IF r.err # "nil"
        THEN [progress |-> [CompletedLevels |-> <<>>, HighScores |-> <<>>,
                            TotalPlayTime |-> 0, LastPlayed |-> now,
                            UnlockedModes |-> <<0>>],
              err      |-> "nil"]
        ELSE [progress |-> r.value, err |-> "nil"]

LoadCustomLevels(fs) ==
    LET r == Get(fs, SaveKeyCustomLevels, "array")
    IN  IF r.err # "nil"
        THEN [levels |-> <<>>, err |-> "nil"]
        ELSE [levels |-> r.value, err |-> "nil"]

\* SaveCustomLevel of a level that has none of the stored IDs, or the ID of
\* a stored level, which it replaces
SaveCustomLevel(fs, level) ==
    LET levels == LoadCustomLevels(fs).levels
        found  == \E i \in 1..Len(levels) : levels[i].ID = level.ID
        first  == CHOOSE i \in 1..Len(levels) :
                      /\ levels[i].ID = level.ID
                      /\ \A j \in 1..(i - 1) : levels[j].ID # level.ID
    IN  Set(fs, SaveKeyCustomLevels, "array",
            IF found THEN [levels EXCEPT ![first] = level]
            ELSE Append(levels, level))

ClearAllData(fs) ==
    Remove(Remove(Remove(Remove(Remove(fs, SaveKeyGameState), SaveKeyAchievements),
                         SaveKeySettings), SaveKeyCustomLevels), SaveKeyProgress)

----------------------------------------------------------------------------
(* pkg/core/game.go *)

\* Go's integer division truncates toward zero
GoDiv(a, b) == IF a >= 0 THEN a \div b ELSE -((-a) \div b)

StateMenu == 0
StatePlaying == 1
StatePaused == 2
StateGameOver == 3
StateLevelSelect == 4
StateLevelEditor == 5

ModeClassic == 0
ModeTimeAttack == 1
ModePuzzle == 2

\* the listener NewAchievementsUI registers: AchievementsUI.onAchievementUnlocked
onAchievementUnlocked == 1

\* the world and the achievement system of NewGame; world.Board is nil in the
\* menu, and Score.Time is the field Time
NewGame ==
    [world          |-> [State |-> StateMenu, Mode |-> ModeClassic,
                         StartTime |-> 0, TimeLimit |-> 0, Time |-> 0],
     achievementSys |-> OnAchievementUnlocked(NewAchievementSystem,
                                              onAchievementUnlocked)]

\* the game after startGameMode(mode) at clock reading t, with achievement
\* system as: the new World, its board and score, and the OnGameStart call
startGameMode(as, mode, t) ==
    LET r == OnGameStart(as, t)
    IN  [Board   |-> SetupLevel1(NewBoard(5, 5)),
         Moves   |-> 0,
         GameWon |-> FALSE,
         world   |-> [State |-> StatePlaying, Mode |-> mode, StartTime |-> t,
                      TimeLimit |-> IF mode = 1 THEN Minute * 2 ELSE 0,
                      Time |-> 0],
         ach     |-> r.as,
         calls   |-> r.calls]

\* handleGameAction that subtracts the X offset of the grid on both axes
handleGameActionOneOffset(b, moves, X, Y) ==
    LET gridX == GoDiv(X - 160, 64)
        gridY == GoDiv(Y - 160, 64)
    IN  IF CanBuildBridge(b, gridX, gridY)
        THEN [Board |-> BuildBridge(b, gridX, gridY), Moves |-> moves + 1,
              ok |-> TRUE, gridX |-> gridX, gridY |-> gridY]
        ELSE [Board |-> b, Moves |-> moves,
              ok |-> FALSE, gridX |-> gridX, gridY |-> gridY]

\* handleGameAction that counts a move for a rejected click too
handleGameActionCountAll(b, moves, X, Y) ==
    LET gridX == GoDiv(X - 160, 64)
        gridY == GoDiv(Y - 120, 64)
    IN  IF CanBuildBridge(b, gridX, gridY)
        THEN [Board |-> BuildBridge(b, gridX, gridY), Moves |-> moves + 1,
              ok |-> TRUE, gridX |-> gridX, gridY |-> gridY]
        ELSE [Board |-> b, Moves |-> moves + 1,
              ok |-> FALSE, gridX |-> gridX, gridY |-> gridY]

\* handleGameAction for a click at screen position (X, Y)
handleGameAction(b, moves, X, Y) ==
    LET gridX == GoDiv(X - 160, 64)
        gridY == GoDiv(Y - 120, 64)
    IN  IF CanBuildBridge(b, gridX, gridY)
        THEN [Board |-> BuildBridge(b, gridX, gridY), Moves |-> moves + 1,
              ok |-> TRUE, gridX |-> gridX, gridY |-> gridY]
        ELSE [Board |-> b, Moves |-> moves,
              ok |-> FALSE, gridX |-> gridX, gridY |-> gridY]

\* the game logic of Update that forwards a win in every Update in which the
\* board is all connected, recorded or not
UpdatePlayingEveryTick(g, t) ==
    IF g.world.State = StatePlaying
    THEN LET Time == t - g.world.StartTime
             w1   == [g.world EXCEPT !.Time = Time]
             w2   == IF w1.Mode = ModeTimeAttack /\ w1.TimeLimit > 0
                        /\ w1.Time >= w1.TimeLimit
                     THEN [w1 EXCEPT !.State = StateGameOver]
                     ELSE w1
             c    == IsAllConnected(g.Board)
         IN  IF c.ret
             THEN LET moves        == g.Moves
                      isTimeAttack == w2.Mode = ModeTimeAttack
                      isPerfect    == moves <= 2
                      r == OnGameWin(g.ach, moves, w2.Time, isTimeAttack, isPerfect, t)
                  IN  [g EXCEPT !.Board = c.b, !.world = w2, !.GameWon = TRUE,
                                !.ach = r.as, !.calls = @ \o r.calls, !.win = TRUE]
             ELSE [g EXCEPT !.Board = c.b, !.world = w2]
    ELSE g

\* the game logic of Update for the playing state, at clock reading t: the
\* timer, the time limit of Time Attack, the win condition
UpdatePlaying(g, t) ==
    IF g.world.State = StatePlaying
    THEN LET Time == t - g.world.StartTime
             w1   == [g.world EXCEPT !.Time = Time]
             w2   == IF w1.Mode = ModeTimeAttack /\ w1.TimeLimit > 0
                        /\ w1.Time >= w1.TimeLimit
                     THEN [w1 EXCEPT !.State = StateGameOver]
                     ELSE w1
             c    == IsAllConnected(g.Board)
         IN  IF c.ret /\ ~g.GameWon
             THEN LET moves        == g.Moves
                      isTimeAttack == w2.Mode = ModeTimeAttack
                      isPerfect    == moves <= 2
                      r == OnGameWin(g.ach, moves, w2.Time, isTimeAttack, isPerfect, t)
                  IN  [g EXCEPT !.Board = c.b, !.world = w2, !.GameWon = TRUE,
                                !.ach = r.as, !.calls = @ \o r.calls, !.win = TRUE]
             ELSE [g EXCEPT !.Board = c.b, !.world = w2]
    ELSE g

\* Update that does not forward an accepted build to the achievement system
UpdateNoForward(g, click, X, Y, t) ==
    LET none == [Board |-> g.Board, Moves |-> g.Moves, ok |-> FALSE,
                 gridX |-> -1, gridY |-> -1]
        h    == IF click /\ g.world.State = StatePlaying
                THEN handleGameAction(g.Board, g.Moves, X, Y)
                ELSE none
    IN  UpdatePlaying([Board |-> h.Board, Moves |-> h.Moves, GameWon |-> g.GameWon,
                       world |-> g.world, ach |-> g.ach, calls |-> <<>>,
                       win |-> FALSE, ok |-> h.ok,
                       gridX |-> IF h.ok THEN h.gridX ELSE -1,
                       gridY |-> IF h.ok THEN h.gridY ELSE -1], t)

\* Update that hands a click to handleGameAction in every state of the game
UpdateAnyState(g, click, X, Y, t) ==
    LET none == [Board |-> g.Board, Moves |-> g.Moves, ok |-> FALSE,
                 gridX |-> -1, gridY |-> -1]
        h    == IF click
                THEN handleGameAction(g.Board, g.Moves, X, Y)
                ELSE none
        a    == IF h.ok THEN OnBridgeBuilt(g.ach, t)
                ELSE [as |-> g.ach, calls |-> <<>>]
    IN  UpdatePlaying([Board |-> h.Board, Moves |-> h.Moves, GameWon |-> g.GameWon,
                       world |-> g.world, ach |-> a.as, calls |-> a.calls,
                       win |-> FALSE, ok |-> h.ok,
                       gridX |-> IF h.ok THEN h.gridX ELSE -1,
                       gridY |-> IF h.ok THEN h.gridY ELSE -1], t)

\* Update at clock reading t on the game g = [Board, Moves, GameWon, world,
\* ach]; click tells whether the input is a click, at screen position (X, Y),
\* that no panel takes. The result adds the listener callbacks made (calls),
\* whether OnGameWin was called (win) and the outcome of the click (ok, gridX,
\* gridY)
Update(g, click, X, Y, t) ==
    LET none == [Board |-> g.Board, Moves |-> g.Moves, ok |-> FALSE,
                 gridX |-> -1, gridY |-> -1]
        h    == IF click /\ g.world.State = StatePlaying
                THEN handleGameAction(g.Board, g.Moves, X, Y)
                ELSE none
        a    == IF h.ok THEN OnBridgeBuilt(g.ach, t)
                ELSE [as |-> g.ach, calls |-> <<>>]
    IN  UpdatePlaying([Board |-> h.Board, Moves |-> h.Moves, GameWon |-> g.GameWon,
                       world |-> g.world, ach |-> a.as, calls |-> a.calls,
                       win |-> FALSE, ok |-> h.ok,
                       gridX |-> IF h.ok THEN h.gridX ELSE -1,
                       gridY |-> IF h.ok THEN h.gridY ELSE -1], t)

\* the nil *island.Board of a world that has no game
NilBoard == NewBoard(0, 0)

\* handleMenuAction(action): the editor for action 3, else startGameMode
handleMenuAction(g, action, t) ==
    IF action = 3
    THEN [g EXCEPT !.world.State = StateLevelEditor]
    ELSE LET s == startGameMode(g.ach, action, t)
         IN  [g EXCEPT !.Board = s.Board, !.Moves = s.Moves, !.GameWon = s.GameWon,
                       !.world = s.world, !.ach = s.ach, !.calls = @ \o s.calls]

\* loadAchievements: the error of LoadAchievements is dropped
loadAchievements(as, fs) == LoadAchievements(fs, as).target

\* boardToSaveData: Tiles[y + 1][x + 1] is the kind of the tile at (x, y)
boardToSaveData(b) ==
    [Width   |-> b.Width,
     Height  |-> b.Height,
     Tiles   |-> [y \in 1..b.Height |->
                     [x \in 1..b.Width |-> b.Tiles[GetTile(b, x - 1, y - 1)]]],
     Islands |-> b.Islands]

RECURSIVE SetSavedTiles(_, _, _)
\* the y/x loops of saveDataToBoard from cell k = y*Width + x on
SetSavedTiles(data, b, k) ==
    IF k >= data.Width * data.Height
    THEN b
    ELSE LET x == k % data.Width
             y == k \div data.Width
         IN  SetSavedTiles(data,
                           IF y < Len(data.Tiles) /\ x < Len(data.Tiles[y + 1])
                           THEN SetTile(b, x, y, data.Tiles[y + 1][x + 1])
                           ELSE b,
                           k + 1)

\* saveDataToBoard: a new board, its tiles set one by one, its island
\* registry replaced by the saved one
saveDataToBoard(data) ==
    [SetSavedTiles(data, NewBoard(data.Width, data.Height), 0)
        EXCEPT !.Islands = data.Islands]

scoreToSaveData(g) == [Moves |-> g.Moves, Time |-> g.world.Time]

\* the CurrentGameState that saveGame builds
gameStateOf(g) ==
    [Mode      |-> g.world.Mode,
     Board     |-> boardToSaveData(g.Board),
     Score     |-> scoreToSaveData(g),
     StartTime |-> g.world.StartTime,
     TimeLimit |-> g.world.TimeLimit,
     GameWon   |-> g.GameWon]

\* saveGame: the files after it
saveGame(g, fs) ==
    IF g.world.State # StatePlaying \/ g.Board = NilBoard
    THEN fs
    ELSE SaveAchievements(SaveGameState(fs, gameStateOf(g)),
                          "string", SaveToJSON(g.ach))

\* loadGame that replaces the world before it looks at the error
loadGameNoCheck(g, fs) ==
    LET r == LoadGameState(fs)
    IN  IF r.err # "nil"
        THEN [g EXCEPT !.Board = NilBoard, !.Moves = 0, !.GameWon = FALSE,
                       !.world = [State |-> StatePlaying, Mode |-> ModeClassic,
                                  StartTime |-> 0, TimeLimit |-> 0, Time |-> 0]]
        ELSE [g EXCEPT !.Board   = saveDataToBoard(r.gameState.Board),
                       !.Moves   = r.gameState.Score.Moves,
                       !.GameWon = r.gameState.GameWon,
                       !.world   = [State     |-> StatePlaying,
                                    Mode      |-> r.gameState.Mode,
                                    StartTime |-> r.gameState.StartTime,
                                    TimeLimit |-> r.gameState.TimeLimit,
                                    Time      |-> r.gameState.Score.Time]]

\* loadGame that restores the board and leaves Score.Moves as it is
loadGameKeepMoves(g, fs) ==
    LET r == LoadGameState(fs)
    IN  IF r.err # "nil"
        THEN g
        ELSE [g EXCEPT !.Board   = saveDataToBoard(r.gameState.Board),
                       !.GameWon = r.gameState.GameWon,
                       !.world   = [State     |-> StatePlaying,
                                    Mode      |-> r.gameState.Mode,
                                    StartTime |-> r.gameState.StartTime,
                                    TimeLimit |-> r.gameState.TimeLimit,
                                    Time      |-> r.gameState.Score.Time]]

\* loadGame: the game after it
loadGame(g, fs) ==
    LET r == LoadGameState(fs)
    IN  IF r.err # "nil"
        THEN g
        ELSE [g EXCEPT !.Board   = saveDataToBoard(r.gameState.Board),
                       !.Moves   = r.gameState.Score.Moves,
                       !.GameWon = r.gameState.GameWon,
                       !.world   = [State     |-> StatePlaying,
                                    Mode      |-> r.gameState.Mode,
                                    StartTime |-> r.gameState.StartTime,
                                    TimeLimit |-> r.gameState.TimeLimit,
                                    Time      |-> r.gameState.Score.Time]]

\* Update at clock reading t for an input that is not a click on the grid
\* of a game: a click on entry action of the main menu ("menu"), on the Back
\* button of the level editor ("back"), on the Save Game, Load Game or
\* Delete Save button of the open save/load panel ("save", "load",
\* "delete"), or no input ("none"). The result is the game and the files
UpdateInput(g, fs, input, t) ==
    LET g0 == [Board |-> g.Board, Moves |-> g.Moves, GameWon |-> g.GameWon,
               world |-> g.world, ach |-> g.ach, calls |-> <<>>,
               win |-> FALSE, ok |-> FALSE, gridX |-> -1, gridY |-> -1]
        g1 == CASE input.kind = "menu" /\ g.world.State = StateMenu
                     -> handleMenuAction(g0, input.action, t)
                [] input.kind = "back" /\ g.world.State = StateLevelEditor
                     -> [g0 EXCEPT !.world.State = StateMenu]
                [] input.kind = "load" /\ HasSavedGame(fs)
                     -> loadGame(g0, fs)
                [] OTHER -> g0
        fs1 == CASE input.kind = "save"   -> saveGame(g0, fs)
                 [] input.kind = "delete" -> DeleteSavedGame(fs)
                 [] OTHER -> fs
    IN  [g |-> UpdatePlaying(g1, t), fs |-> fs1]

----------------------------------------------------------------------------
(* pkg/editor/level_editor.go *)

RECURSIVE CopyTiles(_, _, _)
\* the y/x loops of testLevel from cell k = y*Width + x on: every tile of src
\* is set on dst with SetTile
CopyTiles(src, dst, k) ==
    IF k >= src.Width * src.Height
    THEN dst
    ELSE LET x    == k % src.Width
             y    == k \div src.Width
             tile == GetTile(src, x, y)
         IN  CopyTiles(src,
                       IF tile # nil THEN SetTile(dst, x, y, src.Tiles[tile]) ELSE dst,
                       k + 1)

\* le.TestBoard after testLevel() starts a test play of le.Board
testLevel(leBoard) ==
    CopyTiles(leBoard, NewBoard(leBoard.Width, leBoard.Height), 0)

\* le.Board after paintTile has painted the layout (cell index -> tile kind of
\* a tool: Land, Sea or Empty) cell by cell on the editor's new board
PaintedBoard(width, height, layout) ==
    CopyTiles([Width |-> width, Height |-> height, Tiles |-> layout],
              NewBoard(width, height), 0)

handleTestClick(b, x, y) ==
    IF CanBuildBridge(b, x, y) THEN BuildBridge(b, x, y) ELSE b

ToolLand == 0
ToolSea == 1
ToolEmpty == 2

\* le.Board after paintTile(x, y) with the tool selected
paintTile(b, tool, x, y) ==
    CASE tool = ToolLand  -> SetTile(b, x, y, TileLand)
      [] tool = ToolSea   -> SetTile(b, x, y, TileSea)
      [] tool = ToolEmpty -> SetTile(b, x, y, TileEmpty)
      [] OTHER -> b

RECURSIVE clearBoardFrom(_, _)
\* the y/x loops of clearBoard from cell k = y*Width + x on
clearBoardFrom(b, k) ==
    IF k >= b.Width * b.Height
    THEN b
    ELSE clearBoardFrom(SetTile(b, k % b.Width, k \div b.Width, TileEmpty), k + 1)

clearBoard(b) == clearBoardFrom(b, 0)

----------------------------------------------------------------------------
(* History variables *)

\* the partition m after one more pair (i, j) was given to Union
MergePair(m, i, j) ==
    LET lo == IF m[i] < m[j] THEN m[i] ELSE m[j]
    IN  [k \in DOMAIN m |-> IF m[k] = m[i] \/ m[k] = m[j] THEN lo ELSE m[k]]

RECURSIVE MergeBuild(_, _, _, _, _)
\* the partition m after the Union calls of an accepted BuildBridge(x, y) on b
MergeBuild(m, b, x, y, d) ==
    IF d > 4
    THEN m
    ELSE LET neighbor == GetTile(b, x + directions[d][1], y + directions[d][2])
         IN  IF neighbor # nil /\ b.Tiles[neighbor] \in {TileLand, TileBridge}
             THEN MergeBuild(MergePair(m, y * b.Width + x, neighbor), b, x, y, d + 1)
             ELSE MergeBuild(m, b, x, y, d + 1)

Fresh(n) == [i \in 0..(n - 1) |-> i]

NumBridges(b) == Cardinality({i \in DOMAIN b.Tiles : b.Tiles[i] = TileBridge})

\* the history record of a call made on board b
Call(op, ok, x, y, b) ==
    [op |-> op, ok |-> ok, x |-> x, y |-> y, before |-> NumBridges(b)]

\* the history record of a build attempt at (x, y) on b
BuildCall(op, b, x, y) ==
    IF CanBuildBridge(b, x, y)
    THEN Call(op, TRUE, x, y, b)
    ELSE Call(op, FALSE, -1, -1, b)

----------------------------------------------------------------------------
(* The game from the moment a mode is selected in the menu: Game.Update on *)
(* the level-1 board. A game that is Playing never returns to the menu, so *)
(* startGameMode runs once. The animations and the save/load panel are      *)
(* outside the state modelled here.                                        *)

\* the screen position of the middle of grid column x / grid row y
ScreenX(x) == 160 + 64 * x + 32
ScreenY(y) == 120 + 64 * y + 32

\* screen coordinates of the clicks explored: the middle of each grid column
\* or row, and of the two tile-wide strips on either side of the grid
ClickXs == {160 + 64 * k + 32 : k \in (-2)..5}
ClickYs == {120 + 64 * k + 32 : k \in (-2)..5}

\* the clicks explored: every cell of the grid, and the positions outside the
\* grid on the middle row and the middle column
Clicks ==
    {p \in ClickXs \X ClickYs :
        \/ p[1] \in 160..479 /\ p[2] \in 120..439
        \/ p[1] = 160 + 64 * 2 + 32
        \/ p[2] = 120 + 64 * 2 + 32}

\* the time between two Updates that are told apart
TimeStep == 2 * Minute
UpdateGaps == {0, TimeStep}

\* the menu entries that start a game
GameModes == {ModeClassic, ModeTimeAttack, ModePuzzle}

\* the game as Update sees it
Game ==
    [Board |-> board, Moves |-> Moves, GameWon |-> GameWon, world |-> world,
     ach |-> ach]

InitGame ==
    \E mode \in GameModes :
        LET s == startGameMode(NewGame.achievementSys, mode, 0)
        IN  /\ board = s.Board
            /\ Moves = s.Moves
            /\ GameWon = s.GameWon
            /\ world = s.world
            /\ ach = s.ach
            /\ clock = 0
            /\ notified = s.calls
            /\ files = NoFiles
            /\ merged = Fresh(25)
            /\ last = Call("startGameMode", TRUE, -1, -1, NewBoard(5, 5))

\* the variables after an Update that returned u at clock reading t
Updated(u, t) ==
    /\ board' = u.Board
    /\ Moves' = u.Moves
    /\ GameWon' = u.GameWon
    /\ world' = u.world
    /\ ach' = u.ach
    /\ clock' = t
    /\ notified' = notified \o u.calls
    /\ files' = files
    /\ merged' = IF u.ok THEN MergeBuild(merged, board, u.gridX, u.gridY, 1)
                 ELSE merged

\* one Update with a click at (X, Y): the click is handled, then the timer
\* and the win condition are checked
UpdateClick ==
    \E p \in Clicks, gap \in UpdateGaps :
        \E u \in {Update(Game, TRUE, p[1], p[2], clock + gap)} :
            /\ u.Moves <= MaxMoves
            /\ clock + gap - world.StartTime <= MaxTime * TimeStep
            /\ Updated(u, clock + gap)
            /\ last' = Call("click", u.ok, u.gridX, u.gridY, board)

\* one Update without input
UpdateIdle ==
    \E gap \in UpdateGaps :
        \E u \in {Update(Game, FALSE, 0, 0, clock + gap)} :
            /\ clock + gap - world.StartTime <= MaxTime * TimeStep
            /\ Updated(u, clock + gap)
            /\ last' = Call("tick", u.GameWon, -1, -1, board)

NextGame == UpdateClick \/ UpdateIdle

Spec == InitGame /\ [][NextGame]_vars

----------------------------------------------------------------------------
(* The board alone: any sequence of SetupLevel1, BuildBridge and           *)
(* IsAllConnected calls on a new 5 x 5 board                               *)

InitBoard ==
    /\ board = NewBoard(5, 5)
    /\ Moves = 0
    /\ GameWon = FALSE
    /\ merged = Fresh(25)
    /\ last = Call("NewBoard", TRUE, -1, -1, NewBoard(5, 5))
    /\ world = NewGame.world
    /\ ach = NewGame.achievementSys
    /\ clock = 0
    /\ notified = <<>>
    /\ files = NoFiles

CallSetupLevel1 ==
    /\ board' = SetupLevel1(board)
    /\ merged' = Fresh(board.Width * board.Height)
    /\ last' = Call("SetupLevel1", TRUE, -1, -1, board)
    /\ UNCHANGED <<Moves, GameWon, world, ach, clock, notified, files>>

CallBuildBridge ==
    \E x \in (-1)..board.Width, y \in (-1)..board.Height :
        /\ NumBridges(board) < MaxMoves \/ ~CanBuildBridge(board, x, y)
        /\ board' = BuildBridge(board, x, y)
        /\ merged' = IF CanBuildBridge(board, x, y)
                     THEN MergeBuild(merged, board, x, y, 1) ELSE merged
        /\ last' = BuildCall("BuildBridge", board, x, y)
        /\ UNCHANGED <<Moves, GameWon, world, ach, clock, notified, files>>

CallIsAllConnected ==
    LET r == IsAllConnected(board)
    IN  /\ board' = r.b
        /\ last' = Call("IsAllConnected", r.ret, -1, -1, board)
        /\ UNCHANGED <<Moves, GameWon, merged, world, ach, clock, notified, files>>

NextBoard == CallSetupLevel1 \/ CallBuildBridge \/ CallIsAllConnected

SpecBoard == InitBoard /\ [][NextBoard]_vars

----------------------------------------------------------------------------
(* The union-find alone: any sequence of Union, Find and Connected calls   *)
(* on the union-find of a new board                                        *)

InitUF ==
    \E n \in 1..MaxCells :
        /\ board = NewBoard(n, 1)
        /\ Moves = 0
        /\ GameWon = FALSE
        /\ merged = Fresh(n)
        /\ last = Call("NewUnionFind", TRUE, -1, -1, NewBoard(n, 1))
        /\ world = NewGame.world
        /\ ach = NewGame.achievementSys
        /\ clock = 0
        /\ notified = <<>>
        /\ files = NoFiles

CallUnion ==
    \E i \in DOMAIN board.Tiles, j \in DOMAIN board.Tiles :
        LET r == Union(board.UnionFind, i, j)
        IN  /\ board' = [board EXCEPT !.UnionFind = r.uf]
            /\ merged' = MergePair(merged, i, j)
            /\ last' = Call("Union", r.ret, i, j, board)
            /\ UNCHANGED <<Moves, GameWon, world, ach, clock, notified, files>>

CallFind ==
    \E i \in DOMAIN board.Tiles :
        LET r == Find(board.UnionFind, i)
        IN  /\ board' = [board EXCEPT !.UnionFind = r.uf]
            /\ last' = Call("Find", TRUE, i, r.ret, board)
            /\ UNCHANGED <<Moves, GameWon, merged, world, ach, clock, notified, files>>

CallConnected ==
    \E i \in DOMAIN board.Tiles, j \in DOMAIN board.Tiles :
        LET r == Connected(board.UnionFind, i, j)
        IN  /\ board' = [board EXCEPT !.UnionFind = r.uf]
            /\ last' = Call("Connected", r.ret, i, j, board)
            /\ UNCHANGED <<Moves, GameWon, merged, world, ach, clock, notified, files>>

NextUF == CallUnion \/ CallFind \/ CallConnected

SpecUF == InitUF /\ [][NextUF]_vars

----------------------------------------------------------------------------
(* Test play in the level editor: testLevel copies a painted board, then   *)
(* handleTestClick builds bridges on the copy                              *)

\* the layouts paintTile can leave on a width x height board, within the bounds
Layouts(width, height) ==
    LET cells == 0..(width * height - 1)
    IN  {[i \in cells |-> IF i \in land THEN TileLand
                          ELSE IF i \in empty THEN TileEmpty ELSE TileSea] :
            <<land, empty>> \in
                {p \in (SUBSET cells) \X (SUBSET cells) :
                    /\ Cardinality(p[1]) <= MaxLand
                    /\ Cardinality(p[2]) <= MaxEmpty
                    /\ p[1] \cap p[2] = {}}}

InitTest ==
    \E shape \in TestShapes :
        \E layout \in Layouts(shape[1], shape[2]) :
            /\ board = testLevel(PaintedBoard(shape[1], shape[2], layout))
            /\ Moves = 0
            /\ GameWon = FALSE
            /\ merged = Fresh(shape[1] * shape[2])
            /\ last = Call("testLevel", TRUE, -1, -1, NewBoard(shape[1], shape[2]))
            /\ world = [NewGame.world EXCEPT !.State = StateLevelEditor]
            /\ ach = NewGame.achievementSys
            /\ clock = 0
            /\ notified = <<>>
            /\ files = NoFiles

\* a click on cell (x, y) of the editor grid during test play
TestClick ==
    \E x \in 0..(board.Width - 1), y \in 0..(board.Height - 1) :
        /\ NumBridges(board) < MaxMoves \/ ~CanBuildBridge(board, x, y)
        /\ board' = handleTestClick(board, x, y)
        /\ merged' = IF CanBuildBridge(board, x, y)
                     THEN MergeBuild(merged, board, x, y, 1) ELSE merged
        /\ last' = BuildCall("handleTestClick", board, x, y)
        /\ UNCHANGED <<Moves, GameWon, world, ach, clock, notified, files>>

NextTest == TestClick

SpecTest == InitTest /\ [][NextTest]_vars

----------------------------------------------------------------------------
(* Editing a board: the level editor paints cells with its three tools and *)
(* clears the board; SetTile is also called with coordinates outside the   *)
(* grid and with the Bridge kind, BuildBridge is called, and level 1 is    *)
(* loaded on the board. The editor's board is 16 x 12; the board explored  *)
(* is EditShape.                                                           *)

\* <<width, height>> of the board edited
EditShape == <<2, 2>>

Tools == {ToolLand, ToolSea, ToolEmpty}

\* the cells <<x, y>> that are painted and bridged: two neighbours in a column
EditCells == {<<1, 0>>, <<1, 1>>}

InitEdit ==
    /\ board = NewBoard(EditShape[1], EditShape[2])
    /\ Moves = 0
    /\ GameWon = FALSE
    /\ merged = Fresh(EditShape[1] * EditShape[2])
    /\ last = Call("NewBoard", TRUE, -1, -1, NewBoard(EditShape[1], EditShape[2]))
    /\ world = [NewGame.world EXCEPT !.State = StateLevelEditor]
    /\ ach = NewGame.achievementSys
    /\ clock = 0
    /\ notified = <<>>
    /\ files = NoFiles

\* Union calls that merged two sets since the board's UnionFind was created
Unions(b) == b.Width * b.Height - b.UnionFind.count

\* the variables after a call named op at (x, y) that returned the board b
\* without a Union call
Edited(op, b, x, y) ==
    /\ Len(b.Islands) <= MaxIslands
    /\ board' = b
    /\ last' = Call(op, b # board, x, y, board)
    /\ UNCHANGED <<Moves, GameWon, merged, world, ach, clock, notified, files>>

\* a click on cell (x, y) of the editor grid with a tool selected
PaintTile ==
    \E tool \in Tools, c \in EditCells :
        Edited("paintTile", paintTile(board, tool, c[1], c[2]), c[1], c[2])

\* a click on the Clear button
ClearBoard == Edited("clearBoard", clearBoard(board), -1, -1)

\* SetTile with coordinates outside the grid
CallSetTile ==
    \E x \in (-1)..board.Width, y \in (-1)..board.Height,
       tileType \in {TileEmpty, TileLand, TileSea, TileBridge} :
        /\ GetTile(board, x, y) = nil
        /\ Edited("SetTile", SetTile(board, x, y, tileType), x, y)

EditBuildBridge ==
    \E c \in EditCells : \E x \in {c[1]}, y \in {c[2]} :
        /\ Unions(board) < MaxMoves \/ ~CanBuildBridge(board, x, y)
        /\ board' = BuildBridge(board, x, y)
        /\ merged' = IF CanBuildBridge(board, x, y)
                     THEN MergeBuild(merged, board, x, y, 1) ELSE merged
        /\ last' = BuildCall("BuildBridge", board, x, y)
        /\ UNCHANGED <<Moves, GameWon, world, ach, clock, notified, files>>

\* level 1 is loaded on the board
EditSetupLevel1 ==
    /\ board' = SetupLevel1(board)
    /\ merged' = Fresh(board.Width * board.Height)
    /\ last' = Call("SetupLevel1", TRUE, -1, -1, board)
    /\ UNCHANGED <<Moves, GameWon, world, ach, clock, notified, files>>

NextEdit ==
    PaintTile \/ ClearBoard \/ CallSetTile \/ EditBuildBridge \/ EditSetupLevel1

SpecEdit == InitEdit /\ [][NextEdit]_vars

----------------------------------------------------------------------------
(* The achievement system alone: listeners are registered on a new system, *)
(* then any sequence of OnGameStart, OnGameWin, OnBridgeBuilt and          *)
(* OnLevelCreated calls is made. A game starts at the time of the call     *)
(* before or one day later; the other calls are made at the clock reading  *)
(* of the call before                                                      *)

\* the time between the call before and a game start
StartGaps == {0, Day}

\* the arguments of OnGameWin explored
WinMoves == {2}
WinTimes == {29 * Second, 30 * Second}

\* the number of on_* calls made on as
NumCalls(as) ==
    as.statistics.GamesPlayed + as.statistics.GamesWon
        + as.statistics.BridgesBuilt + as.statistics.LevelsCreated

RECURSIVE Registered(_)
\* a new system on which listeners 1, ..., n were registered in this order
Registered(n) ==
    IF n = 0 THEN NewAchievementSystem
    ELSE OnAchievementUnlocked(Registered(n - 1), n)

\* the system is created at 23:00
InitAch ==
    /\ ach = Registered(MaxListeners)
    /\ clock = 23 * Hour
    /\ notified = <<>>
    /\ files = NoFiles
    /\ board = NewBoard(1, 1)
    /\ Moves = 0
    /\ GameWon = FALSE
    /\ merged = Fresh(1)
    /\ world = NewGame.world
    /\ last = Call("NewAchievementSystem", TRUE, -1, -1, NewBoard(1, 1))

\* the variables after an on_* call named op returned r at clock reading t
Called(op, r, t) ==
    /\ ach' = r.as
    /\ clock' = t
    /\ notified' = notified \o r.calls
    /\ last' = Call(op, r.calls # <<>>, -1, -1, board)
    /\ UNCHANGED <<board, Moves, GameWon, merged, world, files>>

CallOnGameStart ==
    \E gap \in StartGaps :
        /\ NumCalls(ach) < MaxCalls
        /\ clock + gap <= MaxDays * Day + 23 * Hour
        /\ Called("OnGameStart", OnGameStart(ach, clock + gap), clock + gap)

CallOnGameWin ==
    \E moves \in WinMoves, gameTime \in WinTimes,
       isTimeAttack \in BOOLEAN, isPerfect \in BOOLEAN :
        /\ NumCalls(ach) < MaxCalls
        /\ Called("OnGameWin",
                  OnGameWin(ach, moves, gameTime, isTimeAttack, isPerfect, clock),
                  clock)

CallOnBridgeBuilt ==
    /\ NumCalls(ach) < MaxCalls
    /\ Called("OnBridgeBuilt", OnBridgeBuilt(ach, clock), clock)

CallOnLevelCreated ==
    /\ NumCalls(ach) < MaxCalls
    /\ Called("OnLevelCreated", OnLevelCreated(ach, clock), clock)

NextAch ==
    CallOnGameStart \/ CallOnGameWin \/ CallOnBridgeBuilt \/ CallOnLevelCreated

SpecAch == InitAch /\ [][NextAch]_vars

----------------------------------------------------------------------------
(* Bridge building alone: OnBridgeBuilt calls on a new system with         *)
(* listeners, as many as it takes to pass the target of Bridge Builder     *)

\* one more OnBridgeBuilt call, at the clock reading of the calls before
BuildOneMore ==
    /\ ach.statistics.BridgesBuilt < MaxBridgesBuilt
    /\ Called("OnBridgeBuilt", OnBridgeBuilt(ach, clock), clock)

NextBridges == BuildOneMore

SpecBridges == InitAch /\ [][NextBridges]_vars

----------------------------------------------------------------------------
(* A restored achievement system: listeners are registered on a new system, *)
(* a saved document is loaded with LoadFromJSON, then on_* calls are made.  *)
(* A new system never unlocks Efficiency Expert, so it is only in a         *)
(* document that the nine achievements can be one event away from all       *)
(* being unlocked. The documents explored have Efficiency Expert, First     *)
(* Victory, Perfectionist and Island Hopper unlocked, each other            *)
(* achievement either unlocked or one event short of its target, and        *)
(* Island Master in agreement with the nine others.                         *)

\* the achievements a document may hold locked
MayBeLocked ==
    {AchievementSpeedrun, AchievementTimeAttackWin, AchievementBridgeBuilder,
     AchievementLevelCreator, AchievementDedicated}

\* the sets of locked achievements of the documents explored
SavedLocked == {L \in SUBSET MayBeLocked : Cardinality(L) <= MaxLocked}

\* the document of a system saved at 23:00 with the achievements of L locked
SavedGame(L) ==
    LET reached(id) == IF id \in L THEN Target[id] - 1 ELSE Target[id]
        unlocked(id) == IF id = AchievementMaster THEN L = {} ELSE id \notin L
        progress(id) == IF id = AchievementMaster
                        THEN Cardinality((AchievementIds \ {AchievementMaster}) \ L)
                        ELSE reached(id)
    IN  SaveToJSON(
            [achievements |->
                 [id \in AchievementIds |->
                     [Unlocked   |-> unlocked(id),
                      UnlockedAt |-> IF unlocked(id) THEN 0 ELSE nil,
                      Progress   |-> progress(id),
                      Target     |-> Target[id]]],
             statistics   |->
                 [GamesPlayed    |-> reached(AchievementIslandHopper),
                  GamesWon       |-> reached(AchievementIslandHopper),
                  TotalMoves     |-> 2 * reached(AchievementIslandHopper),
                  TotalTime      |-> 30 * Second * reached(AchievementIslandHopper),
                  BestTime       |-> IF AchievementSpeedrun \in L
                                     THEN 30 * Second ELSE 29 * Second,
                  FewestMoves    |-> 2,
                  BridgesBuilt   |-> reached(AchievementBridgeBuilder),
                  TimeAttackWins |-> reached(AchievementTimeAttackWin),
                  PerfectGames   |-> reached(AchievementPerfectGame),
                  LevelsCreated  |-> reached(AchievementLevelCreator),
                  PlayStreak     |-> reached(AchievementDedicated),
                  LastPlayDate   |-> 23 * Hour],
             listeners    |-> <<>>])

InitSaved ==
    \E L \in SavedLocked :
        /\ ach = LoadFromJSON(Registered(MaxListeners), SavedGame(L))
        /\ clock = 23 * Hour
        /\ notified = <<>>
        /\ files = NoFiles
        /\ board = NewBoard(1, 1)
        /\ Moves = 0
        /\ GameWon = FALSE
        /\ merged = Fresh(1)
        /\ world = NewGame.world
        /\ last = Call("LoadFromJSON", TRUE, -1, -1, NewBoard(1, 1))

\* the number of on_* calls made on as beyond those that bring each counter
\* one short of its target
Beyond(as) ==
    (as.statistics.GamesPlayed - (Target[AchievementIslandHopper] - 1))
      + (as.statistics.GamesWon - (Target[AchievementIslandHopper] - 1))
      + (as.statistics.BridgesBuilt - (Target[AchievementBridgeBuilder] - 1))
      + (as.statistics.LevelsCreated - (Target[AchievementLevelCreator] - 1))

\* the on_* calls on the restored system, as long as fewer than MaxAfterLoad
\* calls were made beyond those
StartRestored ==
    \E gap \in StartGaps :
        /\ Beyond(ach) < MaxAfterLoad
        /\ clock + gap <= MaxDays * Day + 23 * Hour
        /\ Called("OnGameStart", OnGameStart(ach, clock + gap), clock + gap)

WinRestored ==
    \E moves \in WinMoves, gameTime \in WinTimes,
       isTimeAttack \in BOOLEAN, isPerfect \in BOOLEAN :
        /\ Beyond(ach) < MaxAfterLoad
        /\ Called("OnGameWin",
                  OnGameWin(ach, moves, gameTime, isTimeAttack, isPerfect, clock),
                  clock)

BuildRestored ==
    /\ Beyond(ach) < MaxAfterLoad
    /\ Called("OnBridgeBuilt", OnBridgeBuilt(ach, clock), clock)

CreateRestored ==
    /\ Beyond(ach) < MaxAfterLoad
    /\ Called("OnLevelCreated", OnLevelCreated(ach, clock), clock)

NextSaved == StartRestored \/ WinRestored \/ BuildRestored \/ CreateRestored

SpecSaved == InitSaved /\ [][NextSaved]_vars

----------------------------------------------------------------------------
(* The program from its start: the main menu, the games started from it,   *)
(* the level editor as far as its Back button, the Save Game and Load     *)
(* Game buttons of the save/load panel (which opens in every state of the  *)
(* game), and the program being started again on the files it left.       *)
(* At the first start the data directory is empty or holds a game file    *)
(* that does not parse.                                                    *)

\* the data directories at the first start
InitialFiles ==
    {NoFiles, [k \in {SaveKeyGameState} |-> Malformed]}

\* the entries of the main menu explored: Classic, Time Attack and the level
\* editor (Puzzle Mode differs from Classic by the value of Mode only)
MenuActions == {ModeClassic, ModeTimeAttack, 3}

\* the clicks on the grid explored: the two cells that win level 1 and a Sea
\* cell that is not buildable
AppCells == {<<2, 1>>, <<2, 2>>, <<0, 0>>}
AppClicks == {<<ScreenX(c[1]), ScreenY(c[2])>> : c \in AppCells}

\* the inputs of UpdateInput explored
AppInputs ==
    {[kind |-> "menu", action |-> a] : a \in MenuActions}
      \cup {[kind |-> k, action |-> -1] : k \in {"back", "save", "load", "delete", "none"}}

\* NewGame on the files fs
StartProgram(fs) ==
    /\ board = NilBoard
    /\ Moves = 0
    /\ GameWon = FALSE
    /\ world = NewGame.world
    /\ ach = loadAchievements(NewGame.achievementSys, fs)
    /\ files = fs

InitApp ==
    \E fs \in InitialFiles :
        /\ StartProgram(fs)
        /\ clock = 0
        /\ notified = <<>>
        /\ merged = Fresh(0)
        /\ last = Call("NewGame", TRUE, -1, -1, NilBoard)

\* the variables after an Update that returned the game u and the files fs
\* at clock reading t
AppUpdated(u, fs, t) ==
    /\ board' = u.Board
    /\ Moves' = u.Moves
    /\ GameWon' = u.GameWon
    /\ world' = u.world
    /\ ach' = u.ach
    /\ clock' = t
    /\ notified' = notified \o u.calls
    /\ files' = fs

\* an Update with a click on a menu entry
ClickMenu ==
    \E action \in MenuActions :
        \E u \in {UpdateInput(Game, files, [kind |-> "menu", action |-> action], clock)} :
            /\ world.State = StateMenu
            /\ ach.statistics.GamesPlayed < MaxGames
            /\ AppUpdated(u.g, u.fs, clock)
            /\ merged' = IF action = 3 THEN merged ELSE Fresh(25)
            /\ last' = Call("menu", action # 3, -1, -1, board)

\* an Update with a click on the Back button of the level editor
ClickBack ==
    \E u \in {UpdateInput(Game, files, [kind |-> "back", action |-> -1], clock)} :
        /\ world.State = StateLevelEditor
        /\ AppUpdated(u.g, u.fs, clock)
        /\ merged' = merged
        /\ last' = Call("back", TRUE, -1, -1, board)

\* an Update with a click on the grid of the game; MaxMoves bridges are built
\* in one run of the program
ClickGrid ==
    \E p \in AppClicks, gap \in UpdateGaps :
        \E u \in {Update(Game, TRUE, p[1], p[2], clock + gap)} :
            /\ world.State = StatePlaying
            /\ u.ach.statistics.BridgesBuilt <= MaxMoves
            /\ clock + gap <= MaxTime * TimeStep
            /\ AppUpdated(u, files, clock + gap)
            /\ merged' = IF u.ok THEN MergeBuild(merged, board, u.gridX, u.gridY, 1)
                         ELSE merged
            /\ last' = Call("click", u.ok, u.gridX, u.gridY, board)

\* an Update without input
Tick ==
    \E gap \in UpdateGaps :
        \E u \in {UpdateInput(Game, files, [kind |-> "none", action |-> -1], clock + gap)} :
            /\ world.State \in {StatePlaying, StateGameOver}
            /\ clock + gap <= MaxTime * TimeStep
            /\ AppUpdated(u.g, u.fs, clock + gap)
            /\ merged' = merged
            /\ last' = Call("tick", u.g.GameWon, -1, -1, board)

\* an Update with a click on the Save Game button; one game is saved in a
\* data directory
ClickSave ==
    \E u \in {UpdateInput(Game, files, [kind |-> "save", action |-> -1], clock)} :
        /\ LoadGameState(files).err # "nil"
        /\ AppUpdated(u.g, u.fs, clock)
        /\ merged' = merged
        /\ last' = Call("save", u.fs # files, -1, -1, board)

\* an Update with a click on the Load Game button
ClickLoad ==
    \E u \in {UpdateInput(Game, files, [kind |-> "load", action |-> -1], clock)} :
        /\ AppUpdated(u.g, u.fs, clock)
        /\ merged' = IF LoadGameState(files).err = "nil"
                     THEN Fresh(u.g.Board.Width * u.g.Board.Height) ELSE merged
        /\ last' = Call("load", LoadGameState(files).err = "nil", -1, -1, board)

\* the program is closed and started again
Restart ==
    /\ world.State # StateMenu
    /\ board' = NilBoard
    /\ Moves' = 0
    /\ GameWon' = FALSE
    /\ world' = NewGame.world
    /\ ach' = loadAchievements(NewGame.achievementSys, files)
    /\ files' = files
    /\ clock' = clock
    /\ notified' = <<>>
    /\ merged' = Fresh(0)
    /\ last' = Call("NewGame", TRUE, -1, -1, board)

NextApp ==
    \/ ClickMenu \/ ClickBack \/ ClickGrid \/ Tick
    \/ ClickSave \/ ClickLoad \/ Restart

SpecApp == InitApp /\ [][NextApp]_vars

----------------------------------------------------------------------------
(* The save system alone: the records of the game state, the settings, the *)
(* progress and the custom levels are written, removed and loaded, and the *)
(* text of a file can be one that json.Unmarshal rejects (a truncated      *)
(* write, a file edited by hand). last is the load that was made and what  *)
(* it returned.                                                            *)

\* the keys with a load operation that reports an error to its caller
StoreKeys == {SaveKeyGameState, SaveKeySettings, SaveKeyProgress, SaveKeyCustomLevels}

\* a file whose text parses to a JSON string, which no load target accepts
WrongType == [json |-> "string", value |-> [none |-> TRUE]]

DamagedTexts == {Malformed, WrongType}

StoreSettings ==
    {GetDefaultSettings,
     [GetDefaultSettings EXCEPT !.SoundEnabled = FALSE, !.PreferredMode = 1]}

StoreProgress ==
    {[CompletedLevels |-> <<>>, HighScores |-> <<>>, TotalPlayTime |-> 0,
      LastPlayed |-> 0, UnlockedModes |-> <<0>>],
     [CompletedLevels |-> <<"level1">>, HighScores |-> <<>>, TotalPlayTime |-> 60,
      LastPlayed |-> 0, UnlockedModes |-> <<0, 1>>]}

StoreLevels == [ID : {"a", "b"}, Name : {"first", "second"}]

StoreGames ==
    {gameStateOf(startGameMode(NewGame.achievementSys, mode, 0)) :
        mode \in {ModeClassic, ModeTimeAttack}}

\* the record of a load: the error and the value its caller receives
Loaded(op, err, value) == [op |-> op, err |-> err, value |-> value]

InitStore ==
    /\ board = NilBoard
    /\ Moves = 0
    /\ GameWon = FALSE
    /\ merged = Fresh(0)
    /\ last = Loaded("NewSaveSystem", "nil", NoValue)
    /\ world = NewGame.world
    /\ ach = NewGame.achievementSys
    /\ clock = 0
    /\ notified = <<>>
    /\ files = NoFiles

\* the variables after the files became fs and the load r was recorded
Stored(fs, r) ==
    /\ files' = fs
    /\ last' = r
    /\ UNCHANGED <<board, Moves, GameWon, merged, world, ach, clock, notified>>

CallSaveGameState ==
    \E gameState \in StoreGames :
        Stored(SaveGameState(files, gameState), last)

CallSaveSettings ==
    \E settings \in StoreSettings : Stored(SaveSettings(files, settings), last)

CallSaveProgress ==
    \E progress \in StoreProgress : Stored(SaveProgress(files, progress), last)

CallSaveCustomLevel ==
    \E level \in StoreLevels :
        /\ Len(LoadCustomLevels(SaveCustomLevel(files, level)).levels) <= MaxLevels
        /\ Stored(SaveCustomLevel(files, level), last)

CallDeleteSavedGame == Stored(DeleteSavedGame(files), last)

CallClearAllData == Stored(ClearAllData(files), last)

\* the text of the file of a key is replaced by one that does not decode
DamageFile ==
    \E key \in StoreKeys, text \in DamagedTexts :
        Stored([k \in DOMAIN files \cup {key} |-> IF k = key THEN text ELSE files[k]],
               last)

CallLoadGameState ==
    LET r == LoadGameState(files)
    IN  Stored(files, Loaded("LoadGameState", r.err, r.gameState))

CallLoadSettings ==
    LET r == LoadSettings(files)
    IN  Stored(files, Loaded("LoadSettings", r.err, r.settings))

CallLoadProgress ==
    LET r == LoadProgress(files, clock)
    IN  Stored(files, Loaded("LoadProgress", r.err, r.progress))

CallLoadCustomLevels ==
    LET r == LoadCustomLevels(files)
    IN  Stored(files, Loaded("LoadCustomLevels", r.err, r.levels))

NextStore ==
    \/ CallSaveGameState \/ CallSaveSettings \/ CallSaveProgress
    \/ CallSaveCustomLevel \/ CallDeleteSavedGame \/ CallClearAllData
    \/ DamageFile
    \/ CallLoadGameState \/ CallLoadSettings \/ CallLoadProgress
    \/ CallLoadCustomLevels

SpecStore == InitStore /\ [][NextStore]_vars

----------------------------------------------------------------------------
(* Vocabulary of the properties *)

Abs(n) == IF n < 0 THEN -n ELSE n

\* the coordinates probed: the grid of b and the ring of positions around it
ProbeXs(b) == (-1)..b.Width
ProbeYs(b) == (-1)..b.Height

InGrid(b, x, y) == x \in 0..(b.Width - 1) /\ y \in 0..(b.Height - 1)

\* the cells of b at distance 1 of (x, y) along one axis
OrthCells(b, x, y) ==
    {i \in DOMAIN b.Tiles : Abs((i % b.Width) - x) + Abs((i \div b.Width) - y) = 1}

LandOrBridge(b, i) == b.Tiles[i] = TileLand \/ b.Tiles[i] = TileBridge

RECURSIVE RootOf(_, _)
\* the root above x in the parent pointers p, read without compressing
RootOf(p, x) == IF p[x] = x THEN x ELSE RootOf(p, p[x])

\* the components of uf as sets of indices
Classes(uf) ==
    {{j \in DOMAIN uf.parent : RootOf(uf.parent, j) = RootOf(uf.parent, i)} :
        i \in DOMAIN uf.parent}

----------------------------------------------------------------------------
(* Properties of the board *)

\* C1: on every board reached in a game and for every (x, y), also outside
\* the grid, CanBuildBridge(x, y) is true exactly when (x, y) is in the grid,
\* its tile is Sea and one of its orthogonal neighbours in the grid is Land
\* or Bridge
C1_CanBuildBridgeRule ==
    \A x \in ProbeXs(board), y \in ProbeYs(board) :
        CanBuildBridge(board, x, y)
        <=> /\ InGrid(board, x, y)
            /\ board.Tiles[y * board.Width + x] = TileSea
            /\ \E n \in OrthCells(board, x, y) : LandOrBridge(board, n)

\* a click was handled and a Sea cell is buildable through a Bridge alone
C1_Witness ==
    /\ last.op = "click"
    /\ \E x \in ProbeXs(board), y \in ProbeYs(board) :
          /\ CanBuildBridge(board, x, y)
          /\ \A n \in OrthCells(board, x, y) : board.Tiles[n] # TileLand

\* C2: an accepted BuildBridge(x, y) makes the tile Bridge, leaves every
\* other tile alone and lowers ComponentCount by the number of distinct
\* components holding a Land or Bridge orthogonal neighbour, which is 1 to 4
C2_BuildBridgeEffect ==
    \A x \in ProbeXs(board), y \in ProbeYs(board) :
        CanBuildBridge(board, x, y) =>
            LET b2    == BuildBridge(board, x, y)
                idx   == y * board.Width + x
                comps == {RootOf(board.UnionFind.parent, n) :
                            n \in {m \in OrthCells(board, x, y) : LandOrBridge(board, m)}}
            IN  /\ b2.Tiles[idx] = TileBridge
                /\ \A i \in DOMAIN board.Tiles : i # idx => b2.Tiles[i] = board.Tiles[i]
                /\ Cardinality(comps) \in 1..4
                /\ ComponentCount(b2.UnionFind)
                     = ComponentCount(board.UnionFind) - Cardinality(comps)
                /\ ComponentCount(b2.UnionFind) <= ComponentCount(board.UnionFind)

\* the one bridge built so far joined four components
C2_Witness ==
    /\ last.op = "handleTestClick" /\ last.ok
    /\ last.before = 0
    /\ board.Tiles[last.y * board.Width + last.x] = TileBridge
    /\ ComponentCount(board.UnionFind) = board.Width * board.Height - 4

\* C3: BuildBridge(x, y) where CanBuildBridge(x, y) is false changes nothing
\* of the board: tiles, island registry, union-find
C3_RejectedBuildIsNoOp ==
    \A x \in ProbeXs(board), y \in ProbeYs(board) :
        ~CanBuildBridge(board, x, y) => BuildBridge(board, x, y) = board

\* a second BuildBridge on the cell that a click has just made a Bridge
\* changes nothing, and a click was rejected
C3_Witness ==
    /\ last.op = "handleTestClick" /\ ~last.ok
    /\ \E x \in ProbeXs(board), y \in ProbeYs(board) :
          /\ InGrid(board, x, y)
          /\ board.Tiles[y * board.Width + x] = TileBridge
          /\ BuildBridge(board, x, y) = board

\* C4: IsAllConnected is true with 0 or 1 islands; with more it is true
\* exactly when every island is Connected to the first, and exactly when
\* every two islands are Connected
C4_IsAllConnectedAnchor ==
    LET r   == IsAllConnected(board)
        isl == board.Islands
        uf  == board.UnionFind
    IN  /\ Len(isl) <= 1 => r.ret
        /\ Len(isl) >= 2 =>
              /\ r.ret <=> \A i \in 2..Len(isl) : Connected(uf, isl[1], isl[i]).ret
              /\ r.ret <=> \A i, j \in 1..Len(isl) : Connected(uf, isl[i], isl[j]).ret

\* a build has joined all of two or more islands
C4_Witness ==
    /\ Len(board.Islands) >= 2
    /\ last.ok /\ last.op = "handleTestClick"
    /\ IsAllConnected(board).ret

\* the Land and Bridge cells of b reachable from the cells S through
\* orthogonally adjacent Land and Bridge cells
RECURSIVE AdjacencyClosure(_, _)
AdjacencyClosure(b, S) ==
    LET T == S \cup {i \in DOMAIN b.Tiles :
                        /\ LandOrBridge(b, i)
                        /\ \E j \in S : i \in OrthCells(b, j % b.Width, j \div b.Width)}
    IN  IF T = S THEN S ELSE AdjacencyClosure(b, T)

\* C5: on a test board loaded from any Land layout and changed by BuildBridge
\* alone, two Land/Bridge cells are Connected exactly when a path of
\* orthogonally adjacent Land/Bridge cells joins them, and IsAllConnected is
\* true exactly when all Land cells lie in one adjacency component
C5_ConnectedIffAdjacencyPath ==
    LET cells == {i \in DOMAIN board.Tiles : LandOrBridge(board, i)}
        lands == {i \in DOMAIN board.Tiles : board.Tiles[i] = TileLand}
    IN  /\ \A a \in cells, c \in cells :
              Connected(board.UnionFind, a, c).ret
              <=> c \in AdjacencyClosure(board, {a})
        /\ IsAllConnected(board).ret
              <=> \A a \in lands : lands \subseteq AdjacencyClosure(board, {a})


\* the number of components of b's union-find that hold an island
IslandComponents(b) ==
    Cardinality({RootOf(b.UnionFind.parent, b.Islands[k]) : k \in 1..Len(b.Islands)})

\* the level-1 scenario played from a new game: the Update with a click on
\* (2, 1), then the Update with a click on (2, 2); from and to are the
\* values of ComponentCount before the first and after the second
Scenario(from, to) ==
    LET h1 == handleGameAction(board, Moves, ScreenX(2), ScreenY(1))
        w1 == IsAllConnected(h1.Board)
        h2 == handleGameAction(w1.b, h1.Moves, ScreenX(2), ScreenY(2))
        w2 == IsAllConnected(h2.Board)
    IN  /\ h1.ok /\ h1.gridX = 2 /\ h1.gridY = 1
        /\ h2.ok /\ h2.gridX = 2 /\ h2.gridY = 2
        /\ ~IsAllConnected(board).ret
        /\ ~w1.ret
        /\ w2.ret
        /\ h2.Moves = 2
        /\ ComponentCount(board.UnionFind) = from
        /\ ComponentCount(w2.b.UnionFind) = to

\* C6 as claimed: on level 1 the builds (2, 1) then (2, 2) are accepted,
\* IsAllConnected turns true at the second, Moves is 2 and ComponentCount
\* goes from 3 to 1 in exactly 2 merges
C6_ScenarioCountThreeToOne ==
    last.op = "startGameMode" => Scenario(3, 1)

\* C6 amended: on level 1 the builds (2, 1) then (2, 2) are accepted,
\* IsAllConnected is false before the second and true after it, Moves is 2,
\* ComponentCount goes from 25 to 21 in exactly 4 merges (two per build) and
\* the components that hold an island go from 3 to 1
C6_ScenarioCountAllCells ==
    /\ last.op = "startGameMode" =>
          /\ Scenario(25, 21)
          /\ IslandComponents(board) = 3
    /\ (/\ last.op = "click" /\ last.ok /\ last.before = 0
        /\ last.x = 2 /\ last.y = 1) =>
          /\ Moves = 1 /\ ~GameWon
          /\ ComponentCount(board.UnionFind) = 23
          /\ IslandComponents(board) = 2
    /\ (/\ last.op = "click" /\ last.ok /\ last.before = 1
        /\ last.x = 2 /\ last.y = 2
        /\ board.Tiles[1 * board.Width + 2] = TileBridge) =>
          /\ Moves = 2 /\ GameWon
          /\ ComponentCount(board.UnionFind) = 21
          /\ IslandComponents(board) = 1

\* the second click of the scenario has been handled
C6_Witness ==
    /\ last.op = "click" /\ last.ok /\ last.before = 1
    /\ last.x = 2 /\ last.y = 2
    /\ board.Tiles[1 * board.Width + 2] = TileBridge
    /\ Moves = 2 /\ GameWon

\* b has no Bridge, registers exactly its Land cells, each once, and no two
\* distinct cells of it are Connected
FreshLevel(b) ==
    /\ \A i \in DOMAIN b.Tiles : b.Tiles[i] # TileBridge
    /\ {b.Islands[k] : k \in 1..Len(b.Islands)}
          = {i \in DOMAIN b.Tiles : b.Tiles[i] = TileLand}
    /\ \A k, l \in 1..Len(b.Islands) : k # l => b.Islands[k] # b.Islands[l]
    /\ {i \in DOMAIN b.Tiles : b.Tiles[i] = TileLand} = {6, 8, 17}
    /\ \A i \in DOMAIN b.Tiles, j \in DOMAIN b.Tiles :
          i # j => ~Connected(b.UnionFind, i, j).ret

\* C7: SetupLevel1 on a board with any bridges built leaves no Bridge tile,
\* the level's Land cells as the island registry and no two distinct cells
\* Connected
C7_LoadDiscardsBridgesAndUnions ==
    /\ FreshLevel(SetupLevel1(board))
    /\ last.op = "SetupLevel1" => FreshLevel(board)

\* SetupLevel1 has run on a board with bridges
C7_Witness ==
    /\ last.op = "SetupLevel1"
    /\ last.before >= 1
    /\ FreshLevel(board)

----------------------------------------------------------------------------
(* Properties of the union-find *)

\* C8: at every point of a sequence of Union calls Connected is an
\* equivalence relation on the indices, also when the calls that are compared
\* run one after the other on the union-find the earlier calls compressed
C8_ConnectedIsEquivalence ==
    LET uf == board.UnionFind
        D  == DOMAIN uf.parent
    IN  \A a \in D :
          /\ Connected(uf, a, a).ret
          /\ \A c \in D :
                LET ac == Connected(uf, a, c)
                IN  /\ ac.ret => Connected(uf, c, a).ret
                    /\ ac.ret => Connected(ac.uf, c, a).ret
                    /\ \A e \in D :
                          LET ce == Connected(ac.uf, c, e)
                          IN  /\ (ac.ret /\ Connected(uf, c, e).ret)
                                    => Connected(uf, a, e).ret
                              /\ (ac.ret /\ ce.ret) => Connected(ce.uf, a, e).ret

\* Union calls have left three indices in one component, one of them two
\* parent pointers below its root
C8_Witness ==
    LET uf == board.UnionFind
        D  == DOMAIN uf.parent
    IN  /\ last.op = "Union"
        /\ \E a \in D, c \in D, e \in D :
              /\ a # c /\ c # e /\ a # e
              /\ Connected(uf, a, c).ret /\ Connected(uf, c, e).ret
              /\ Connected(Connected(uf, a, c).uf, a, e).ret
              /\ uf.parent[a] = c /\ uf.parent[c] = e

\* Connected agrees with the partition generated by the pairs given to Union
AgreesWithMerged ==
    \A a \in DOMAIN merged, c \in DOMAIN merged :
        Connected(board.UnionFind, a, c).ret <=> (merged[a] = merged[c])

\* the union-find after each call that can be made on it, with the
\* partition of the pairs given to Union after that call
AfterOneCall ==
    LET uf == board.UnionFind
        D  == DOMAIN uf.parent
    IN  {[uf |-> Union(uf, i, j).uf, merged |-> MergePair(merged, i, j)] :
            i \in D, j \in D}
        \cup {[uf |-> Find(uf, i).uf, merged |-> merged] : i \in D}
        \cup {[uf |-> Connected(uf, i, j).uf, merged |-> merged] : i \in D, j \in D}

\* C9: after any Union calls since NewUnionFind, Connected(a, b) holds
\* exactly when (a, b) is in the equivalence generated by the pairs given to
\* Union, and no Union, Find or Connected call disconnects a Connected pair
C9_ConnectedIsUnionClosure ==
    LET uf   == board.UnionFind
        D    == DOMAIN uf.parent
        conn == {p \in D \X D : Connected(uf, p[1], p[2]).ret}
    IN  /\ AgreesWithMerged
        /\ \A n \in AfterOneCall :
              /\ \A p \in conn : Connected(n.uf, p[1], p[2]).ret
              /\ \A p \in D \X D :
                    Connected(n.uf, p[1], p[2]).ret <=> (n.merged[p[1]] = n.merged[p[2]])

\* two indices never given to Union together are Connected through a third
C9_Witness ==
    /\ last.op \in {"Find", "Connected"}
    /\ \E a \in DOMAIN merged, c \in DOMAIN merged :
          /\ a # c
          /\ merged[a] = merged[c]
          /\ board.UnionFind.parent[a] # c /\ board.UnionFind.parent[c] # a
          /\ Connected(board.UnionFind, a, c).ret

\* C10: Union(i, j) on indices of one component (i = j too) returns false and
\* keeps the partition and the count; otherwise it returns true, replaces
\* the components of i and j by their union and lowers the count by 1
C10_UnionResult ==
    LET uf == board.UnionFind
        D  == DOMAIN uf.parent
        Class(i) == {k \in D : RootOf(uf.parent, k) = RootOf(uf.parent, i)}
    IN  \A i \in D, j \in D :
          LET r == Union(uf, i, j)
          IN  IF Class(i) = Class(j)
              THEN /\ ~r.ret
                   /\ Classes(r.uf) = Classes(uf)
                   /\ ComponentCount(r.uf) = ComponentCount(uf)
              ELSE /\ r.ret
                   /\ Classes(r.uf)
                        = (Classes(uf) \ {Class(i), Class(j)})
                            \cup {Class(i) \cup Class(j)}
                   /\ ComponentCount(r.uf) = ComponentCount(uf) - 1

\* Union has just returned false for two distinct indices, after merges
C10_Witness ==
    /\ last.op = "Union" /\ ~last.ok
    /\ last.x # last.y
    /\ ComponentCount(board.UnionFind) < Cardinality(DOMAIN board.UnionFind.parent)
    /\ Cardinality(Classes(board.UnionFind)) = ComponentCount(board.UnionFind)

\* C11: ComponentCount is n right after NewUnionFind(n); after every sequence
\* of Union, Find and Connected calls it is the number of roots (indices i
\* with parent[i] = i), which is the number of equivalence classes of
\* Connected; and no Union, Find or Connected call increases it
C11_ComponentCountIsRoots ==
    LET uf    == board.UnionFind
        D     == DOMAIN uf.parent
        roots == {i \in D : uf.parent[i] = i}
        connectedClasses ==
            {{j \in D : Connected(uf, i, j).ret} : i \in D}
    IN  /\ \A n \in 1..MaxCells : ComponentCount(NewUnionFind(n)) = n
        /\ last.op = "NewUnionFind" => ComponentCount(uf) = Cardinality(D)
        /\ ComponentCount(uf) = Cardinality(roots)
        /\ ComponentCount(uf) = Cardinality(connectedClasses)
        /\ \A n \in AfterOneCall : ComponentCount(n.uf) <= ComponentCount(uf)

\* merges have left one component, and a Find or Connected call has then
\* compressed a path
C11_Witness ==
    /\ last.op \in {"Find", "Connected"}
    /\ Cardinality(DOMAIN board.UnionFind.parent) = MaxCells
    /\ ComponentCount(board.UnionFind) = 1
    /\ \A i \in DOMAIN board.UnionFind.parent :
          board.UnionFind.parent[board.UnionFind.parent[i]] = board.UnionFind.parent[i]
    /\ last.before = 0

----------------------------------------------------------------------------
(* Properties of the game *)

\* C12: while a game is played, an Update with a click on a buildable cell
\* raises Score.Moves by exactly 1, an Update with a click on a cell that is
\* not buildable, or without a click, leaves it alone, so that Moves is the
\* number of accepted builds of the game; and no Update lowers Moves
C12_MovesCountAcceptedBuilds ==
    /\ Moves = NumBridges(board)
    /\ \A gap \in UpdateGaps :
          /\ Update(Game, FALSE, 0, 0, clock + gap).Moves = Moves
          /\ \A p \in Clicks :
                LET u         == Update(Game, TRUE, p[1], p[2], clock + gap)
                    buildable == CanBuildBridge(board, GoDiv(p[1] - 160, 64),
                                                GoDiv(p[2] - 120, 64))
                IN  /\ u.Moves >= Moves
                    /\ world.State = StatePlaying =>
                          /\ buildable => u.Moves = Moves + 1 /\ u.ok
                          /\ ~buildable => u.Moves = Moves /\ ~u.ok

\* a click has been rejected in a game that has accepted builds and is
\* still played
C12_Witness ==
    /\ last.op = "click" /\ ~last.ok
    /\ world.State = StatePlaying
    /\ Moves = 2
    /\ NumBridges(board) = 2

----------------------------------------------------------------------------
(* Properties of the achievement system *)

\* the result of each on_* call that can be made next, with its name and
\* its clock reading
AchAfterOneCall ==
    {[op |-> "OnGameStart", t |-> clock + gap, r |-> OnGameStart(ach, clock + gap)] :
        gap \in StartGaps}
    \cup {[op |-> "OnGameWin", t |-> clock,
           r |-> OnGameWin(ach, a[1], a[2], a[3], a[4], clock)] :
             a \in WinMoves \X WinTimes \X BOOLEAN \X BOOLEAN}
    \cup {[op |-> "OnBridgeBuilt", t |-> clock, r |-> OnBridgeBuilt(ach, clock)],
          [op |-> "OnLevelCreated", t |-> clock, r |-> OnLevelCreated(ach, clock)]}

\* the times since the call before at which a next game start is examined
LaterGaps == {0, 2 * Hour, 22 * Hour, Day, 26 * Hour, 2 * Day}

\* the callbacks of the sequence calls that were made for achievement id
CallsFor(calls, id) == SelectSeq(calls, LAMBDA c : c[2] = id)

\* C13: an achievement that is unlocked stays unlocked through every
\* OnGameStart, OnGameWin, OnBridgeBuilt and OnLevelCreated call
C13_UnlockedIsSticky ==
    \A n \in AchAfterOneCall, id \in AchievementIds :
        ach.achievements[id].Unlocked => n.r.as.achievements[id].Unlocked

\* First Victory and Speed Demon were unlocked by one win and have been
\* evaluated again by a later win
C13_Witness ==
    /\ last.op = "OnGameWin"
    /\ ach.statistics.GamesWon >= 2
    /\ ach.achievements[AchievementFirstWin].Unlocked
    /\ ach.achievements[AchievementSpeedrun].Unlocked
    /\ ach.achievements[AchievementFirstWin].UnlockedAt
          = ach.achievements[AchievementSpeedrun].UnlockedAt
    /\ ach.achievements[AchievementFirstWin].UnlockedAt < clock

\* C14: no OnGameStart, OnGameWin, OnBridgeBuilt or OnLevelCreated call,
\* whatever the time since the call before, lowers the Progress of an
\* achievement
C14_ProgressIsMonotonic ==
    \A id \in AchievementIds :
        /\ \A n \in AchAfterOneCall :
              n.r.as.achievements[id].Progress >= ach.achievements[id].Progress
        /\ \A gap \in LaterGaps :
              OnGameStart(ach, clock + gap).as.achievements[id].Progress
                >= ach.achievements[id].Progress

\* C15: an achievement is unlocked exactly when it has an unlock timestamp;
\* every listener has been called exactly once for each unlocked
\* achievement, in the order of registration, and never for a locked one; a
\* call that unlocks an achievement stamps it with the time of the call and
\* calls the listeners for it in that order; and evaluating an unlocked
\* achievement again calls no listener and changes nothing
C15_UnlockNotifiesOnce ==
    /\ \A id \in AchievementIds :
          LET a == ach.achievements[id]
          IN  /\ a.Unlocked <=> a.UnlockedAt # nil
              /\ CallsFor(notified, id)
                    = IF a.Unlocked
                      THEN [k \in 1..Len(ach.listeners) |-> <<ach.listeners[k], id>>]
                      ELSE <<>>
              /\ a.Unlocked =>
                    \A gap \in StartGaps :
                        checkAchievement(ach, id, clock + gap)
                          = [as |-> ach, calls |-> <<>>]
    /\ \A n \in AchAfterOneCall, id \in AchievementIds :
          LET a0 == ach.achievements[id]
              a1 == n.r.as.achievements[id]
          IN  IF ~a0.Unlocked /\ a1.Unlocked
              THEN /\ a1.UnlockedAt = n.t
                   /\ CallsFor(n.r.calls, id)
                         = [k \in 1..Len(ach.listeners) |-> <<ach.listeners[k], id>>]
              ELSE /\ a1.UnlockedAt = a0.UnlockedAt
                   /\ a1.Unlocked = a0.Unlocked
                   /\ CallsFor(n.r.calls, id) = <<>>

\* Level Designer was unlocked by the last call, the fifth OnLevelCreated, and
\* both listeners have been called for it, the first registered first
C15_Witness ==
    /\ last.op = "OnLevelCreated" /\ last.ok
    /\ Len(ach.listeners) = 2
    /\ ach.achievements[AchievementLevelCreator].Unlocked
    /\ ach.achievements[AchievementLevelCreator].UnlockedAt = clock
    /\ notified = << <<1, AchievementLevelCreator>>, <<2, AchievementLevelCreator>> >>

\* C16: on a new system, after k OnBridgeBuilt calls with k < 100 Bridge
\* Builder is locked with Progress k and no listener has been called for it;
\* the 100th call unlocks it and calls each listener exactly once for it; the
\* calls after that call no listener
C16_BridgeBuilderAtHundred ==
    LET k == ach.statistics.BridgesBuilt
        a == ach.achievements[AchievementBridgeBuilder]
        each == [l \in 1..Len(ach.listeners) |->
                    <<ach.listeners[l], AchievementBridgeBuilder>>]
    IN  /\ a.Progress = k
        /\ k < 100 => ~a.Unlocked /\ CallsFor(notified, AchievementBridgeBuilder) = <<>>
        /\ k >= 100 => a.Unlocked /\ CallsFor(notified, AchievementBridgeBuilder) = each
        /\ k = 100 => last.ok
        /\ k # 100 => ~(last.op = "OnBridgeBuilt" /\ last.ok)
        /\ k = 99 =>
              LET r == OnBridgeBuilt(ach, clock)
              IN  /\ r.as.achievements[AchievementBridgeBuilder].Unlocked
                  /\ CallsFor(r.calls, AchievementBridgeBuilder) = each
        /\ k >= 100 =>
              CallsFor(OnBridgeBuilt(ach, clock).calls, AchievementBridgeBuilder) = <<>>

\* the 101st bridge has been built
C16_Witness ==
    /\ last.op = "OnBridgeBuilt" /\ ~last.ok
    /\ ach.statistics.BridgesBuilt = 101
    /\ ach.achievements[AchievementBridgeBuilder].Unlocked
    /\ ach.achievements[AchievementBridgeBuilder].Progress = 101
    /\ Len(CallsFor(notified, AchievementBridgeBuilder)) = Len(ach.listeners)
    /\ Len(ach.listeners) >= 1

\* the achievements other than Island Master that are unlocked in as
UnlockedOthers(as) ==
    {id \in AchievementIds \ {AchievementMaster} : as.achievements[id].Unlocked}

\* Island Master agrees with the nine other achievements of as
MasterAgrees(as) ==
    LET master == as.achievements[AchievementMaster]
    IN  /\ master.Unlocked <=> UnlockedOthers(as) = AchievementIds \ {AchievementMaster}
        /\ master.Progress = Cardinality(UnlockedOthers(as))

\* C17: after every on_* call Island Master is unlocked exactly when the nine
\* other achievements are, and its Progress is the number of them that are
\* unlocked; the call that unlocks the ninth unlocks Island Master too, at
\* the time of that call, and the listeners are called for Island Master
\* last, right after they were called for the achievement unlocked ninth
C17_MasterFollowsTheOthers ==
    /\ MasterAgrees(ach)
    /\ \A n \in AchAfterOneCall :
          LET k       == Len(ach.listeners)
              c       == n.r.calls
              master  == n.r.as.achievements[AchievementMaster]
          IN  /\ MasterAgrees(n.r.as)
              /\ UnlockedOthers(n.r.as) # UnlockedOthers(ach)
                    /\ ~master.Unlocked
                    => master.Progress > ach.achievements[AchievementMaster].Progress
              /\ master.Unlocked /\ ~ach.achievements[AchievementMaster].Unlocked
                    => /\ master.UnlockedAt = n.t
                       /\ Len(c) >= 2 * k
                       /\ SubSeq(c, Len(c) - k + 1, Len(c))
                             = [l \in 1..k |-> <<ach.listeners[l], AchievementMaster>>]
                       /\ \E id \in UnlockedOthers(n.r.as) \ UnlockedOthers(ach) :
                             SubSeq(c, Len(c) - 2 * k + 1, Len(c) - k)
                                = [l \in 1..k |-> <<ach.listeners[l], id>>]
              /\ ~master.Unlocked => CallsFor(c, AchievementMaster) = <<>>

\* the last call, a win, unlocked Time Attack Pro and then Speed Demon, the
\* ninth, and with it Island Master: the listeners were called for Island
\* Master after Speed Demon
C17_Witness ==
    /\ last.op = "OnGameWin" /\ last.ok
    /\ Len(ach.listeners) = 2
    /\ ach.achievements[AchievementMaster].Unlocked
    /\ ach.achievements[AchievementMaster].UnlockedAt = clock
    /\ ach.achievements[AchievementMaster].Progress = 9
    /\ notified = << <<1, AchievementTimeAttackWin>>, <<2, AchievementTimeAttackWin>>,
                     <<1, AchievementSpeedrun>>, <<2, AchievementSpeedrun>>,
                     <<1, AchievementMaster>>, <<2, AchievementMaster>> >>

\* C18: after an OnGameWin call with isPerfect = true, Efficiency Expert is
\* unlocked
C18_PerfectWinUnlocksEfficient ==
    ach.statistics.PerfectGames >= 1 =>
        ach.achievements[AchievementEfficient].Unlocked

\* the calendar day of a clock reading
CalendarDay(t) == t \div Day

\* C19: OnGameStart raises GamesPlayed by 1; the streak becomes 1 with no
\* last play, grows by 1 when the last play was on the calendar day before,
\* becomes 1 when it was on an earlier day, and is unchanged when it was on
\* the same day
C19_StreakFollowsCalendarDays ==
    \A gap \in LaterGaps :
        LET t    == clock + gap
            s    == ach.statistics
            n    == OnGameStart(ach, t).as.statistics
            days == CalendarDay(t) - CalendarDay(s.LastPlayDate)
        IN  /\ n.GamesPlayed = s.GamesPlayed + 1
            /\ n.LastPlayDate = t
            /\ n.PlayStreak =
                  IF s.LastPlayDate = nil THEN 1
                  ELSE IF days = 1 THEN s.PlayStreak + 1
                  ELSE IF days > 1 THEN 1
                  ELSE s.PlayStreak


----------------------------------------------------------------------------
(* Properties of the timed mode                                            *)

\* the time limit of Time Attack is found to have elapsed by an Update at
\* clock reading t
LimitElapsed(t) ==
    /\ world.State = StatePlaying
    /\ world.Mode = ModeTimeAttack
    /\ world.TimeLimit > 0
    /\ t - world.StartTime >= world.TimeLimit

\* C20: a timed-out game is not a won game: in no state is the game both
\* StateGameOver and GameWon; an Update that finds the time limit elapsed
\* before the board is all-connected ends in StateGameOver and emits no
\* OnGameWin, and no Update of a game in StateGameOver emits one
C20_TimedOutIsNotWon ==
    /\ ~(world.State = StateGameOver /\ GameWon)
    /\ \A p \in Clicks, gap \in UpdateGaps :
           \E u \in {Update(Game, TRUE, p[1], p[2], clock + gap)} :
               /\ LimitElapsed(clock + gap) /\ ~GameWon
                      => u.world.State = StateGameOver /\ ~u.win /\ ~u.GameWon
               /\ world.State = StateGameOver => ~u.win


----------------------------------------------------------------------------
(* Properties of the unlock moment                                         *)

\* every achievement of as whose Progress has reached its Target is unlocked
ReachedIsUnlocked(as) ==
    \A id \in AchievementIds :
        as.achievements[id].Progress >= as.achievements[id].Target
            => as.achievements[id].Unlocked

\* C28: after every OnGameStart, OnGameWin, OnBridgeBuilt and OnLevelCreated
\* call every achievement whose Progress is at least its Target is unlocked:
\* an achievement is unlocked by the call that brings its Progress to the
\* Target, not by a later one
C28_UnlockedWhenTargetReached ==
    /\ ReachedIsUnlocked(ach)
    /\ \A n \in AchAfterOneCall :
          /\ ReachedIsUnlocked(n.r.as)
          /\ \A id \in AchievementIds :
                n.r.as.achievements[id].Unlocked /\ ~ach.achievements[id].Unlocked
                    => ach.achievements[id].Progress < ach.achievements[id].Target

\* the fifth Time Attack win has just brought Time Attack Pro to its Target
\* and unlocked it
C28_Witness ==
    /\ last.op = "OnGameWin" /\ last.ok
    /\ ach.statistics.TimeAttackWins = 5
    /\ ach.achievements[AchievementTimeAttackWin].Progress
          = ach.achievements[AchievementTimeAttackWin].Target
    /\ ach.achievements[AchievementTimeAttackWin].Unlocked
    /\ ach.achievements[AchievementTimeAttackWin].UnlockedAt = clock


----------------------------------------------------------------------------
(* Properties of the events the game forwards                              *)

\* C29: in the game, an Update with a click that builds a bridge makes
\* exactly one OnBridgeBuilt call and every other Update makes none: the
\* BridgesBuilt statistic goes up by 1 exactly when Score.Moves does, and
\* Bridge Builder's Progress follows it
C29_BuildForwardsOneEvent ==
    /\ ach.statistics.BridgesBuilt = Moves
    /\ \A gap \in UpdateGaps :
          /\ Update(Game, FALSE, 0, 0, clock + gap).ach.statistics.BridgesBuilt
                = ach.statistics.BridgesBuilt
          /\ \A p \in Clicks :
                \E u \in {Update(Game, TRUE, p[1], p[2], clock + gap)} :
                    /\ u.ach.statistics.BridgesBuilt - ach.statistics.BridgesBuilt
                          = u.Moves - Moves
                    /\ u.ach.statistics.BridgesBuilt
                          = ach.statistics.BridgesBuilt + (IF u.ok THEN 1 ELSE 0)
                    /\ u.ok => u.ach.achievements[AchievementBridgeBuilder].Progress
                                  = u.Moves

\* the second bridge of a game has just been built and forwarded
C29_Witness ==
    /\ last.op = "click" /\ last.ok
    /\ Moves = 2
    /\ ach.statistics.BridgesBuilt = 2
    /\ ach.achievements[AchievementBridgeBuilder].Progress = 2


----------------------------------------------------------------------------
(* Properties of the score                                                 *)

\* the score of the game g: Score.Moves and Score.Time
ScoreOf(g) == [Moves |-> g.Moves, Time |-> g.world.Time]

\* the game is over: it was won or it timed out
Finished == GameWon \/ world.State = StateGameOver

\* C21: once the game is won or timed out, no Update, with a click or
\* without, changes Score.Moves or Score.Time
C21_ScoreFrozenWhenFinished ==
    Finished =>
        \A gap \in UpdateGaps :
            /\ ScoreOf(Update(Game, FALSE, 0, 0, clock + gap)) = ScoreOf(Game)
            /\ \A p \in Clicks :
                  ScoreOf(Update(Game, TRUE, p[1], p[2], clock + gap)) = ScoreOf(Game)

\* the part of C21 about Score.Moves alone
MovesFrozenWhenFinished ==
    Finished =>
        \A gap \in UpdateGaps, p \in Clicks :
            Update(Game, TRUE, p[1], p[2], clock + gap).Moves = Moves

\* the part of C21 about a game that timed out
ScoreFrozenWhenTimedOut ==
    world.State = StateGameOver =>
        \A gap \in UpdateGaps :
            /\ ScoreOf(Update(Game, FALSE, 0, 0, clock + gap)) = ScoreOf(Game)
            /\ \A p \in Clicks :
                  ScoreOf(Update(Game, TRUE, p[1], p[2], clock + gap)) = ScoreOf(Game)


----------------------------------------------------------------------------
(* Properties of saving and loading                                        *)

\* the game that loadGame restores from what saveGame wrote of the game now
Reloaded == loadGame(Game, saveGame(Game, files))

\* boards a and b connect the same pairs of cells
SameConnectivity(a, b) ==
    /\ DOMAIN a.Tiles = DOMAIN b.Tiles
    /\ \A i, j \in DOMAIN a.Tiles :
          Connected(a.UnionFind, i, j).ret = Connected(b.UnionFind, i, j).ret

\* the parts of C23 other than connectivity: tiles, island registry and move
\* count of a game that is played are restored exactly
SaveLoadRestoresTiles ==
    world.State = StatePlaying =>
        /\ Reloaded.Board.Width = board.Width
        /\ Reloaded.Board.Height = board.Height
        /\ Reloaded.Board.Tiles = board.Tiles
        /\ Reloaded.Board.Islands = board.Islands
        /\ Reloaded.Moves = Moves

\* C23: saving a game that is played and loading it again restores the
\* tiles, the island registry and the move count exactly, and a board on
\* which the same pairs of cells are connected, so that IsAllConnected
\* returns what it returned before the save
C23_LoadRestoresConnectivity ==
    world.State = StatePlaying =>
        /\ SaveLoadRestoresTiles
        /\ SameConnectivity(Reloaded.Board, board)
        /\ IsAllConnected(Reloaded.Board).ret = IsAllConnected(board).ret


\* the achievement system of the next start of the program, after saveGame
\* has saved the game now
Restored == loadAchievements(NewGame.achievementSys, saveGame(Game, files))

\* achievement systems a and b have the same unlock states, progress
\* counters and statistics
SameAchievements(a, b) ==
    /\ \A id \in AchievementIds :
          /\ a.achievements[id].Unlocked = b.achievements[id].Unlocked
          /\ a.achievements[id].Progress = b.achievements[id].Progress
    /\ a.statistics = b.statistics

\* C24: the achievement system that loadAchievements restores at the next
\* start from what saveGame saved has, for every achievement, the unlock
\* state and the progress counter it had when it was saved, and the same
\* statistics
C24_AchievementsSurviveRestart ==
    world.State = StatePlaying => SameAchievements(Restored, ach)

\* the round trip through SaveToJSON and LoadFromJSON themselves
JSONRoundTrip ==
    SameAchievements(LoadFromJSON(NewGame.achievementSys, SaveToJSON(ach)), ach)


\* the files fs with the file of key replaced by a text that does not parse
Damaged(fs, key) ==
    [k \in DOMAIN fs \cup {key} |-> IF k = key THEN Malformed ELSE fs[k]]

\* the data directory now, with the game file missing, not parsing, or
\* holding a JSON string instead of an object
FailingGameFiles ==
    {Remove(files, SaveKeyGameState),
     Damaged(files, SaveKeyGameState),
     Set(files, SaveKeyGameState, "string", [text |-> "saved"])}

\* C30: when the saved game is missing or does not deserialize, loadGame
\* leaves the world as it was: state, mode, board with its tiles and its
\* connectivity, score, GameWon, start time and time limit; an Update with a
\* click on Load Game then does what an Update without input does
C30_FailedLoadKeepsWorld ==
    \A fs \in FailingGameFiles :
        /\ LoadGameState(fs).err # "nil"
        /\ loadGame(Game, fs) = Game
        /\ UpdateInput(Game, fs, [kind |-> "load", action |-> -1], clock)
              = UpdateInput(Game, fs, [kind |-> "none", action |-> -1], clock)

\* a click on Load Game has just failed on a game file that does not parse,
\* in a game that is played and has a bridge
C30_Witness ==
    /\ last.op = "load" /\ ~last.ok
    /\ HasSavedGame(files)
    /\ LoadGameState(files).err = "SyntaxError"
    /\ world.State = StatePlaying
    /\ Moves = 1
    /\ NumBridges(board) = 1


----------------------------------------------------------------------------
(* Properties of the state machine of the game                             *)

\* the fields of a game that Update reads
Stripped(g) ==
    [Board |-> g.Board, Moves |-> g.Moves, GameWon |-> g.GameWon,
     world |-> g.world, ach |-> g.ach]

\* the game and the files after one Update of the game and files of p, for
\* every input of the user: a click on a menu entry, on Back, on Save Game,
\* Load Game or Delete Save, on a cell of the grid, or none
AfterOneInput(p) ==
    {[g  |-> Stripped(UpdateInput(p.g, p.fs, input, clock + gap).g),
      fs |-> UpdateInput(p.g, p.fs, input, clock + gap).fs] :
          input \in AppInputs, gap \in UpdateGaps}
      \cup {[g  |-> Stripped(Update(p.g, TRUE, c[1], c[2], clock + gap)),
             fs |-> p.fs] : c \in AppClicks, gap \in UpdateGaps}

RECURSIVE MenuWithin(_, _)
\* some sequence of at most n inputs leads from a game of S to the menu; a
\* set S that the inputs do not leave has no such sequence of any length
MenuWithin(S, n) ==
    IF \E p \in S : p.g.world.State = StateMenu
    THEN TRUE
    ELSE IF n = 0
    THEN FALSE
    ELSE LET T == S \cup UNION {AfterOneInput(p) : p \in S}
         IN  IF T = S THEN FALSE ELSE MenuWithin(T, n - 1)

\* the part of C22 about entering StatePlaying: an Update enters it only
\* from the menu, on a click on a mode, or on a click on Load Game
PlayingEnteredFromMenuOrLoad ==
    world.State # StatePlaying =>
        /\ \A input \in AppInputs, gap \in UpdateGaps :
              UpdateInput(Game, files, input, clock + gap).g.world.State = StatePlaying
                  => \/ world.State = StateMenu /\ input.kind = "menu"
                     \/ input.kind = "load"
        /\ \A c \in AppClicks, gap \in UpdateGaps :
              Update(Game, TRUE, c[1], c[2], clock + gap).world.State # StatePlaying

\* no input takes a game that is played or timed out to another state than
\* these two
NoInputLeavesTheGame ==
    world.State \in {StatePlaying, StateGameOver} =>
        \A p \in AfterOneInput([g |-> Game, fs |-> files]) :
            p.g.world.State \in {StatePlaying, StateGameOver}

\* C22: from every state in which the game is timed out or won some
\* sequence of clicks leads back to the menu, and StatePlaying is entered
\* only from the menu by the selection of a mode, or by loading a saved game
C22_FinishedLeadsToMenu ==
    /\ Finished => MenuWithin({[g |-> Game, fs |-> files]}, MaxInputs)
    /\ PlayingEnteredFromMenuOrLoad

\* the cells of b that hold Land
LandCells(b) == {i \in DOMAIN b.Tiles : b.Tiles[i] = TileLand}

\* C25: on every board reached by SetTile, BuildBridge, level loading, the
\* editor's painting and Clear, the island registry holds exactly the indices
\* of the cells that hold Land now, each of them once.
C25_RegistryIsTheLandCells ==
    /\ {board.Islands[k] : k \in 1..Len(board.Islands)} = LandCells(board)
    /\ \A k, l \in 1..Len(board.Islands) :
          k # l => board.Islands[k] # board.Islands[l]

\* what the code keeps: every cell that holds Land is in the registry, and
\* the registry holds indices of cells of the board
LandCellsAreRegistered ==
    /\ LandCells(board) \subseteq {board.Islands[k] : k \in 1..Len(board.Islands)}
    /\ \A k \in 1..Len(board.Islands) : board.Islands[k] \in DOMAIN board.Tiles

TileTypes == {TileEmpty, TileLand, TileSea, TileBridge}

Inside(b, x, y) == x \in 0..(b.Width - 1) /\ y \in 0..(b.Height - 1)

KeyOf ==
    [LoadGameState |-> SaveKeyGameState, LoadSettings |-> SaveKeySettings,
     LoadProgress |-> SaveKeyProgress, LoadCustomLevels |-> SaveKeyCustomLevels]

LoadOps == DOMAIN KeyOf

\* the error and the value that the load operation op returns on fs
LoadResult(op, fs, now) ==
    CASE op = "LoadGameState" ->
            [err |-> LoadGameState(fs).err, value |-> LoadGameState(fs).gameState]
      [] op = "LoadSettings" ->
            [err |-> LoadSettings(fs).err, value |-> LoadSettings(fs).settings]
      [] op = "LoadProgress" ->
            [err |-> LoadProgress(fs, now).err, value |-> LoadProgress(fs, now).progress]
      [] op = "LoadCustomLevels" ->
            [err |-> LoadCustomLevels(fs).err, value |-> LoadCustomLevels(fs).levels]

\* the file of key is there and its text does not decode into the target
Undecodable(fs, key) == key \in DOMAIN fs /\ fs[key] \in DamagedTexts

\* C27: for each load of the save system a record that does not decode is
\* returned to the caller as an error, so that it differs from a missing
\* record, which gives ErrNotFound or the defaults without an error.
C27_MalformedIsALoadFailure ==
    \A op \in LoadOps :
        /\ Undecodable(files, KeyOf[op]) => LoadResult(op, files, clock).err # "nil"
        /\ KeyOf[op] \notin DOMAIN files =>
              LoadResult(op, files, clock).err \in {"nil", "ErrNotFound"}
        /\ (last.op = op /\ Undecodable(files, KeyOf[op])) => last.err # "nil"

\* what the code does: the saved game is loaded with ErrNotFound when it is
\* missing and with the error of json.Unmarshal when it does not decode;
\* the settings, the progress and the custom levels are loaded without an
\* error whatever the file, and a file that is missing or does not decode
\* gives the value that the empty directory gives
OnlyGameStateReportsFailure ==
    \A op \in LoadOps :
        LET r == LoadResult(op, files, clock)
        IN  IF op = "LoadGameState"
            THEN /\ KeyOf[op] \notin DOMAIN files => r.err = "ErrNotFound"
                 /\ Undecodable(files, KeyOf[op])
                       => r.err \in {"SyntaxError", "UnmarshalTypeError"}
            ELSE /\ r.err = "nil"
                 /\ (KeyOf[op] \notin DOMAIN files \/ Undecodable(files, KeyOf[op]))
                       => r = LoadResult(op, NoFiles, clock)

----------------------------------------------------------------------------
(* Properties of Find and of the ranks *)

RECURSIVE Ancestors(_, _)
\* x and the indices above x in the parent pointers p, the root excepted
Ancestors(p, x) == IF p[x] = x THEN {} ELSE {x} \cup Ancestors(p, p[x])

RECURSIVE ReachesRoot(_, _, _)
\* a root is reached from x in at most k steps along the parent pointers p
ReachesRoot(p, x, k) ==
    IF p[x] = x THEN TRUE
    ELSE IF k = 0 THEN FALSE
    ELSE ReachesRoot(p, p[x], k - 1)

\* the parent pointers of uf form a forest
Forest(uf) ==
    \A i \in DOMAIN uf.parent :
        /\ uf.parent[i] \in DOMAIN uf.parent
        /\ ReachesRoot(uf.parent, i, Cardinality(DOMAIN uf.parent))

\* C31: Find(i) returns the root above i, which is its own parent; it
\* changes neither the components, nor the count, nor a rank; it points i
\* and every index between i and the root at the root and changes no other
\* parent; a second Find(i), and Find of the root, return the same root and
\* change nothing.
C31_FindReturnsRootAndCompresses ==
    \A i \in DOMAIN board.UnionFind.parent :
        LET uf == board.UnionFind
            f  == Find(uf, i)
            r  == f.ret
        IN  /\ r = RootOf(uf.parent, i)
            /\ f.uf.parent[r] = r
            /\ Classes(f.uf) = Classes(uf)
            /\ \A j \in DOMAIN uf.parent :
                  RootOf(f.uf.parent, j) = RootOf(uf.parent, j)
            /\ f.uf.count = uf.count
            /\ f.uf.rank = uf.rank
            /\ \A j \in DOMAIN uf.parent :
                  f.uf.parent[j] = IF j \in Ancestors(uf.parent, i)
                                   THEN r ELSE uf.parent[j]
            /\ Find(f.uf, i) = [uf |-> f.uf, ret |-> r]
            /\ Find(f.uf, r) = [uf |-> f.uf, ret |-> r]

\* Find(last.x) was just called on an index below its root, and an index is
\* still two steps below its root
C31_Witness ==
    /\ last.op = "Find"
    /\ last.x # last.y
    /\ board.UnionFind.parent[last.x] = last.y
    /\ \E j \in DOMAIN board.UnionFind.parent :
          Cardinality(Ancestors(board.UnionFind.parent, j)) = 2

\* the roots of x and y after the two Find calls of Union(x, y)
RootsAtLink(uf, x, y) ==
    LET fx == Find(uf, x)
        fy == Find(fx.uf, y)
    IN  [rootX |-> fx.ret, rootY |-> fy.ret, u |-> fy.uf]

\* C38: the parent pointers form a forest in which every index reaches a
\* root, and every index that is not a root has a rank below the rank of
\* its parent; Union(x, y) of two components puts the root of lower rank
\* under the root of higher rank, on equal ranks the root of y under the
\* root of x, and raises one rank by one, the rank of the root that stays,
\* on equal ranks only.
C38_UnionByRankKeepsForest ==
    LET uf == board.UnionFind
    IN  /\ Forest(uf)
        /\ \A i \in DOMAIN uf.parent :
              uf.parent[i] # i => uf.rank[i] < uf.rank[uf.parent[i]]
        /\ \A x \in DOMAIN uf.parent, y \in DOMAIN uf.parent :
              LET a == RootsAtLink(uf, x, y)
                  n == Union(uf, x, y).uf
                  stays == IF a.u.rank[a.rootX] < a.u.rank[a.rootY]
                           THEN a.rootY ELSE a.rootX
                  goes  == IF stays = a.rootX THEN a.rootY ELSE a.rootX
                  tie   == a.u.rank[a.rootX] = a.u.rank[a.rootY]
              IN  a.rootX # a.rootY =>
                    /\ n.parent = [a.u.parent EXCEPT ![goes] = stays]
                    /\ n.rank = IF tie THEN [a.u.rank EXCEPT ![stays] = @ + 1]
                                ELSE a.u.rank
                    /\ n.parent[stays] = stays
                    /\ n.rank[goes] < n.rank[stays]

\* Union just merged two components and left a root of rank 1 above two
\* other indices: its rank rose when a root of equal rank 0 was put under
\* it, and a root of rank 0 was then put under it without a rise
C38_Witness ==
    /\ last.op = "Union" /\ last.ok
    /\ \E r \in DOMAIN board.UnionFind.parent :
          /\ board.UnionFind.parent[r] = r
          /\ board.UnionFind.rank[r] = 1
          /\ Cardinality({j \in DOMAIN board.UnionFind.parent :
                            RootOf(board.UnionFind.parent, j) = r}) = 3
          /\ r \in {last.x, last.y}
                \/ board.UnionFind.parent[last.x] = r
                \/ board.UnionFind.parent[last.y] = r

----------------------------------------------------------------------------
(* Properties of the level and of the clicks *)

\* C32: in a game on level 1 the board is not all connected while fewer
\* than 2 bridges are built, a win is recorded with 2 moves or more, and the
\* Update that records a win counts a perfect game exactly when the win took
\* 2 moves.
C32_TwoMovesIsTheMinimum ==
    /\ Moves < 2 => ~IsAllConnected(board).ret /\ ~GameWon
    /\ GameWon => Moves >= 2 /\ ach.statistics.FewestMoves >= 2
    /\ \A gap \in UpdateGaps, p \in Clicks :
          \E u \in {Update(Game, TRUE, p[1], p[2], clock + gap)} :
              u.win =>
                /\ u.Moves >= 2
                /\ u.ach.statistics.PerfectGames - ach.statistics.PerfectGames
                      = IF u.Moves = 2 THEN 1 ELSE 0

\* a win with 2 moves was recorded, as a perfect game
C32_Witness ==
    /\ GameWon /\ Moves = 2
    /\ ach.statistics.FewestMoves = 2
    /\ ach.statistics.PerfectGames = 1

\* a click on a board with 2 bridges wins the game with a third move, which
\* is not counted as a perfect game
ThirdMoveWins ==
    /\ Moves = 2 /\ ~GameWon
    /\ \E p \in Clicks :
          \E u \in {Update(Game, TRUE, p[1], p[2], clock)} :
              u.win /\ u.Moves = 3
                    /\ u.ach.statistics.PerfectGames = ach.statistics.PerfectGames

\* screen coordinates probed: those of the clicks explored and the pixels on
\* either side of each edge of the grid
ProbeClickXs == ClickXs \cup {96, 97, 159, 160, 479, 480}
ProbeClickYs == ClickYs \cup {56, 57, 119, 120, 439, 440}

\* (X, Y) is in the rectangle in which the grid of b is drawn
InDrawnGrid(b, X, Y) ==
    /\ X >= 160 /\ X < 160 + 64 * b.Width
    /\ Y >= 120 /\ Y < 120 + 64 * b.Height

\* C37: in a game, a click at a screen position outside the rectangle
\* [160, 160 + 64*Width) x [120, 120 + 64*Height) builds no bridge and does
\* not raise Score.Moves.
C37_ClickOutsideGridBuildsNothing ==
    \A X \in ProbeClickXs, Y \in ProbeClickYs :
        ~InDrawnGrid(board, X, Y) =>
            \E h \in {handleGameAction(board, Moves, X, Y)} :
                ~h.ok /\ h.Moves = Moves /\ h.Board = board

\* what the code does: a click a whole tile or more outside the rectangle
\* builds nothing, and a click in the rectangle addresses the cell drawn
\* under it
ClickFarOutsideBuildsNothing ==
    \A X \in ProbeClickXs, Y \in ProbeClickYs :
        \E h \in {handleGameAction(board, Moves, X, Y)} :
            /\ (X <= 160 - 64 \/ X >= 160 + 64 * board.Width
                  \/ Y <= 120 - 64 \/ Y >= 120 + 64 * board.Height)
                  => ~h.ok /\ h.Moves = Moves /\ h.Board = board
            /\ InDrawnGrid(board, X, Y) =>
                  /\ h.gridX = (X - 160) \div 64 /\ h.gridY = (Y - 120) \div 64
                  /\ 160 + 64 * h.gridX <= X /\ X < 160 + 64 * (h.gridX + 1)
                  /\ 120 + 64 * h.gridY <= Y /\ Y < 120 + 64 * (h.gridY + 1)

----------------------------------------------------------------------------
(* Properties of a game that is over *)

\* C33: in StateGameOver an Update with a click on the grid or beside it,
\* with a click on a menu entry, on Back, on Save Game or on Delete Save, or
\* without input, at the same clock reading or later, leaves the board
\* (tiles, island registry, union-find), Score.Moves, Score.Time, GameWon,
\* the state of the game and the achievement system as they are.
C33_GameOverChangesNothing ==
    world.State = StateGameOver =>
        \A gap \in UpdateGaps :
            /\ \A p \in Clicks :
                  Stripped(Update(Game, TRUE, p[1], p[2], clock + gap)) = Game
            /\ \A input \in AppInputs :
                  input.kind # "load" =>
                      Stripped(UpdateInput(Game, files, input, clock + gap).g) = Game

\* a Time Attack game with one bridge has timed out, the last Update was a
\* click that built nothing, and a cell that the same click would build on
\* in a game that is played is there
C33_Witness ==
    /\ world.State = StateGameOver
    /\ last.op = "click" /\ ~last.ok
    /\ Moves = 1
    /\ CanBuildBridge(board, 2, 2)
    /\ <<ScreenX(2), ScreenY(2)>> \in Clicks

----------------------------------------------------------------------------
(* Properties of the program: games started from the menu and games loaded *)

\* the Land cells of level 1
Level1Land == LandCells(SetupLevel1(NewBoard(5, 5)))

\* C34: whenever the program has a board, in a game started from the menu
\* or loaded from a game that saveGame wrote, the number of Bridge tiles is
\* Score.Moves and the Land cells are those of the level; an Update with a
\* click changes at most tiles from Sea to Bridge, and an Update without
\* input changes no tile.
C34_BridgesAreTheMoves ==
    board # NilBoard =>
        /\ NumBridges(board) = Moves
        /\ LandCells(board) = Level1Land
        /\ \A gap \in UpdateGaps :
              /\ Update(Game, FALSE, 0, 0, clock + gap).Board.Tiles = board.Tiles
              /\ \A p \in Clicks :
                    \E u \in {Update(Game, TRUE, p[1], p[2], clock + gap)} :
                        /\ NumBridges(u.Board) = u.Moves
                        /\ \A i \in DOMAIN board.Tiles :
                              u.Board.Tiles[i] # board.Tiles[i] =>
                                  /\ board.Tiles[i] = TileSea
                                  /\ u.Board.Tiles[i] = TileBridge

\* a second bridge was just built in a game that was loaded with one bridge:
\* only on a loaded board do the bridges at (2, 1) and (2, 2) not win
C34_Witness ==
    /\ last.op = "click" /\ last.ok
    /\ Moves = 2 /\ NumBridges(board) = 2
    /\ ~GameWon
    /\ HasSavedGame(files)

\* the games after one Update of the game that does not replace its world:
\* with a click at p of Clicks, with a click on Back, Save Game, Delete Save
\* or on a menu entry while no menu is shown, or without input. Each is paired
\* with the clock reading t of the Update
AfterOneUpdate ==
    {[u |-> Update(Game, TRUE, p[1], p[2], clock + gap), t |-> clock + gap] :
        p \in Clicks, gap \in UpdateGaps}
      \cup {[u |-> UpdateInput(Game, files, input, clock + gap).g, t |-> clock + gap] :
              input \in {i \in AppInputs :
                            /\ i.kind # "load"
                            /\ i.kind = "menu" => world.State # StateMenu},
              gap \in UpdateGaps}

\* C35: an Update that does not replace the world calls OnGameWin exactly
\* when the game is Playing, GameWon is false and the board is all connected
\* after the click of that Update; the call carries Score.Moves and the time
\* since StartTime of that Update and sets GameWon; GameWon, once true, stays
\* true and no further call is made; no game is left Playing with an
\* all-connected board and GameWon false.
C35_WinIsForwardedOnce ==
    board # NilBoard =>
        /\ world.State = StatePlaying /\ IsAllConnected(board).ret => GameWon
        /\ \A a \in AfterOneUpdate :
              /\ a.u.win <=> /\ world.State = StatePlaying
                             /\ ~GameWon
                             /\ IsAllConnected(a.u.Board).ret
              /\ GameWon => a.u.GameWon /\ ~a.u.win
              /\ a.u.GameWon <=> GameWon \/ a.u.win
              /\ a.u.ach.statistics.GamesWon
                    = ach.statistics.GamesWon + (IF a.u.win THEN 1 ELSE 0)
              /\ a.u.win =>
                    /\ a.u.ach.statistics.TotalMoves
                          = ach.statistics.TotalMoves + a.u.Moves
                    /\ a.u.ach.statistics.TotalTime
                          = ach.statistics.TotalTime + (a.t - world.StartTime)
                    /\ a.u.world.Time = a.t - world.StartTime

\* the game was won, one win was forwarded, and the last Update, a later one
\* without input, forwarded none
C35_Witness ==
    /\ GameWon /\ world.State = StatePlaying
    /\ last.op = "tick"
    /\ ach.statistics.GamesWon = 1
    /\ ach.statistics.TotalMoves = Moves

\* C36: in a run of the program that starts with new statistics, GamesWon
\* is at most GamesPlayed, whatever the menu selections, builds, Updates
\* without input, saves and loads so far.
C36_WonAtMostPlayed == ach.statistics.GamesWon <= ach.statistics.GamesPlayed

\* what the code keeps: the wins counted beyond the games started are wins
\* of games that were loaded, since only loadGame enters StatePlaying
\* without OnGameStart
WonBeyondPlayedOnlyAfterLoad ==
    ach.statistics.GamesWon > ach.statistics.GamesPlayed => HasSavedGame(files)

============================================================================
